---- MODULE Spec2Model ----
(***************************************************************************)
(* Model of the OpenSSL-WASM-JS binding layer (src/src/index.ts): the      *)
(* OpenSSL facade class, the foreign heap it leases buffers from, and the  *)
(* C glue procedures it binds.  One public operation of the facade is one  *)
(* action: JavaScript runs each call to completion, so nothing can         *)
(* interleave with it.  Every foreign call and every host access to        *)
(* foreign memory made by the invocation is appended to `trace`.           *)
(***************************************************************************)
EXTENDS Integers, Sequences, FiniteSets, TLC

\* ------------------------------------------------------------------ bounds

\* Longest byte sequence a caller passes.
MaxLen == 3

\* Longest text a caller passes that is not the output of an encoder.
MaxTextLen == 2

\* Number of addresses of the foreign heap (address 0 is the null sentinel).
MaxAddr == 3

\* Byte values callers use: one below 16 (needs zero padding in hex), the
\* extremes 0 and 255.
ByteVals == {0, 10, 255}

\* UTF-16 code units callers use in text: 'a', 'F', 'g' (no hex digit) and
\* U+00E9 (not ASCII).
TextChars == {97, 70, 103, 233}

\* Byte counts random_bytes is asked for.
Lengths == 0..MaxLen

\* ---------------------------------------------------------------- helpers

SeqsUpTo(S, n) == UNION {[1..k -> S] : k \in 0..n}

ByteSeqs == SeqsUpTo(ByteVals, MaxLen)

Texts == SeqsUpTo(TextChars, MaxTextLen)

Min(S) == CHOOSE x \in S : \A y \in S : x <= y

Take(s, n) == [i \in 1..(IF n < Len(s) THEN n ELSE Len(s)) |-> s[i]]

Drop(s, n) == [i \in 1..(IF n < Len(s) THEN Len(s) - n ELSE 0) |-> s[i + n]]

\* Values that cross the public surface: a Uint8Array or a string.
Bytes(v) == [t |-> "bytes", v |-> v]

Text(v) == [t |-> "text", v |-> v]

NoValue == [t |-> "none", v |-> <<>>]

\* A byte of foreign memory the invocation never wrote (stale content).
Stale == -1

\* ------------------------------------------------- host-side conversions

\* Number.prototype.toString(16) of a byte: lowercase digits, no leading zero.
HexDigitChar(d) == IF d < 10 THEN 48 + d ELSE 97 + (d - 10)

ToString16(b) ==
    IF b < 16 THEN <<HexDigitChar(b)>>
    ELSE <<HexDigitChar(b \div 16), HexDigitChar(b % 16)>>

\* String.prototype.padStart(2, '0').
PadStart2(s) == IF Len(s) >= 2 THEN s ELSE [i \in 1..(2 - Len(s)) |-> 48] \o s

RECURSIVE Join(_)
Join(ss) == IF ss = <<>> THEN <<>> ELSE Head(ss) \o Join(Tail(ss))

\* The digit value of a code unit in radix 16, or -1 when it is no digit.
HexValue(c) ==
    IF c >= 48 /\ c <= 57 THEN c - 48
    ELSE IF c >= 97 /\ c <= 102 THEN c - 87
    ELSE IF c >= 65 /\ c <= 70 THEN c - 55
    ELSE -1

\* A parsed Number: NaN, or an integer.
NaN == [nan |-> TRUE, val |-> 0]

Num(x) == [nan |-> FALSE, val |-> x]

RECURSIVE ParseDigits(_, _, _)
ParseDigits(s, acc, seen) ==
    IF s = <<>> \/ HexValue(Head(s)) < 0
    THEN (IF seen THEN Num(acc) ELSE NaN)
    ELSE ParseDigits(Tail(s), acc * 16 + HexValue(Head(s)), TRUE)

\* parseInt(s, 16): an optional sign, then the longest prefix of hex digits
\* (either case); NaN when there is no digit.
ParseInt16(s) ==
    IF s # <<>> /\ Head(s) = 45
    THEN (LET m == ParseDigits(Tail(s), 0, FALSE) IN IF m.nan THEN NaN ELSE Num(0 - m.val))
    ELSE IF s # <<>> /\ Head(s) = 43
    THEN ParseDigits(Tail(s), 0, FALSE)
    ELSE ParseDigits(s, 0, FALSE)

\* Storing a Number into a Uint8Array element: NaN becomes 0, others wrap.
ToUint8(x) == IF x.nan THEN 0 ELSE x.val % 256

\* TextEncoder.encode: UTF-8 of a sequence of UTF-16 code units (the code
\* units used here are below the surrogate range).
Utf8Char(c) ==
    IF c < 128 THEN <<c>>
    ELSE IF c < 2048 THEN <<192 + (c \div 64), 128 + (c % 64)>>
    ELSE <<224 + (c \div 4096), 128 + ((c \div 64) % 64), 128 + (c % 64)>>

TextEncode(s) == Join([i \in 1..Len(s) |-> Utf8Char(s[i])])

\* Mutant: text taken code unit by code unit, without TextEncoder.
InputDataCodeUnits(data) == data.v

\* The input conversion at the head of each digest and of base64Encode.
InputData(data) == IF data.t = "text" THEN TextEncode(data.v) ELSE data.v

\* Mutant: toHex without padStart.
toHexUnpadded(data) == Join([i \in 1..Len(data) |-> ToString16(data[i])])

\* toHex: each byte as two lowercase hex digits.
toHex(data) == Join([i \in 1..Len(data) |-> PadStart2(ToString16(data[i]))])

\* The loop of fromHex: one byte per two characters.
HexPairs(hex) ==
    [k \in 1..(Len(hex) \div 2) |-> ToUint8(ParseInt16(<<hex[2 * k - 1], hex[2 * k]>>))]

\* What a public operation hands back: a value, or an Error with its message.
Return(v) == [kind |-> "return", value |-> v, msg |-> <<>>]

Throw(msg) == [kind |-> "throw", value |-> NoValue, msg |-> msg]

\* Mutant: fromHex without the test of the length.
fromHexUnchecked(hex) == Return(Bytes(HexPairs(hex)))

\* fromHex: rejects odd lengths, else converts pair by pair.
fromHex(hex) ==
    IF Len(hex) % 2 # 0
    THEN Throw(<<"Hex string must have an even number of characters">>)
    ELSE Return(Bytes(HexPairs(hex)))

\* --------------------------------------------------------- foreign memory

Addrs == 1..MaxAddr

\* The heap is the set of live (allocated, not yet freed) addresses.
EmptyHeap == {}

\* The number of outstanding foreign allocations.
Outstanding(h) == Cardinality(h)

\* A foreign call or a host access to foreign memory:
\*   k: "_malloc" | "_free" | "write" | "read" | "call";  f: the bound
\*   procedure of a call;  a: the address passed;  n: the byte count;
\*   r: the value returned;  o: the value left in an out-parameter.
Ev(k, f, a, n, r, o) == [k |-> k, f |-> f, a |-> a, n |-> n, r |-> r, o |-> o]

\* The context an invocation threads through its steps: the live
\* addresses, the bytes it has put into each region (region 0 is the memory at
\* the null address, which linear memory lets everyone read and write), the
\* events so far, the value of the last step, the buffers the host has
\* written past the end of (over), whether such a byte lands on the
\* allocator's bookkeeping (clobber, the layout's choice) and whether the
\* allocator has faulted on it (fault).
Enter(h, env) ==
    [heap |-> h, mem |-> [a \in 0..MaxAddr |-> <<>>], trace |-> <<>>, ret |-> 0,
     over |-> {}, clobber |-> env.ovf, fault |-> FALSE]

\* The allocator hands out the lowest free address, or the zero sentinel
\* when it is exhausted (fail: exhaustion of the space behind the addresses).
AllocAddr(h, fail) ==
    IF fail \/ h = Addrs THEN 0 ELSE Min(Addrs \ h)

Allocate(c, n, fail) ==
    LET p == AllocAddr(c.heap, fail)
    IN  [c EXCEPT !.heap = IF p = 0 THEN @ ELSE @ \cup {p},
                  !.mem = IF p = 0 THEN @ ELSE [@ EXCEPT ![p] = <<>>],
                  !.ret = p]

Release(h, p) == h \ {p}

\* instance._malloc(size)
Malloc(c, n, fail) ==
    LET d == Allocate(c, n, fail)
    IN  [d EXCEPT !.trace = Append(@, Ev("_malloc", "", 0, n, d.ret, 0))]

\* instance._free(ptr): free(NULL) does nothing.  Releasing a buffer whose
\* end was overrun onto the allocator's bookkeeping is undefined: the
\* allocator may fault there, and the exception it raises ends the
\* statements that follow (no later _free of the same block runs).
Free(c, p) ==
    IF c.fault THEN c
    ELSE IF p \in c.over /\ c.clobber
    THEN [c EXCEPT !.fault = TRUE,
                   !.trace = Append(@, Ev("_free", "", p, 0, 0, 0))]
    ELSE [c EXCEPT !.heap = Release(@, p),
                   !.trace = Append(@, Ev("_free", "", p, 0, 0, 0))]

\* The size the invocation asked _malloc for when it obtained p.
AllocSize(c, p) ==
    LET S == {i \in 1..Len(c.trace) : c.trace[i].k = "_malloc" /\ c.trace[i].r = p}
    IN  IF S = {} THEN 0 ELSE c.trace[CHOOSE i \in S : \A j \in S : j <= i].n

\* n bytes from the start of an allocated buffer do not fit in it.
PastEnd(c, p, n) == p # 0 /\ n > AllocSize(c, p)

\* Bytes bs stored from the start of a region, over what was there.
Overlay(old, bs) == bs \o Drop(old, Len(bs))

Store(m, p, bs) == [m EXCEPT ![p] = Overlay(@, bs)]

\* n bytes from the start of a region; bytes never written are stale.
Load(m, p, n) == [i \in 1..n |-> IF i <= Len(m[p]) THEN m[p][i] ELSE Stale]

\* HEAPU8.set(bytes, ptr)
HostWrite(c, p, bs) ==
    [c EXCEPT !.mem = Store(@, p, bs),
              !.over = IF PastEnd(c, p, Len(bs)) THEN @ \cup {p} ELSE @,
              !.trace = Append(@, Ev("write", "", p, Len(bs), 0, 0))]

\* new Uint8Array(HEAPU8.buffer, ptr, n) copied out
HostRead(c, p, n) ==
    [c EXCEPT !.ret = Load(c.mem, p, n),
              !.trace = Append(@, Ev("read", "", p, n, 0, 0))]

\* A 32-bit int as stored in linear memory (little-endian, two's complement).
LE4(u) == <<u % 256, (u \div 256) % 256, (u \div 65536) % 256, (u \div 16777216) % 256>>

I32Bytes(x) ==
    IF x >= 0 THEN LE4(x)
    ELSE [i \in 1..4 |-> 255 - LE4(0 - (x + 1))[i]]

I32Value(bs) ==
    IF bs[4] < 128
    THEN bs[1] + 256 * bs[2] + 65536 * bs[3] + 16777216 * bs[4]
    ELSE 0 - (1 + (255 - bs[1]) + 256 * (255 - bs[2]) + 65536 * (255 - bs[3])
                + 16777216 * (255 - bs[4]))

\* instance.getValue(ptr, 'i32')
GetValueI32(c, p) ==
    [c EXCEPT !.ret = I32Value(Load(c.mem, p, 4)),
              !.trace = Append(@, Ev("read", "", p, 4, 0, 0))]

\* stringToUTF8Array: whole characters while they fit in room bytes.
RECURSIVE Utf8Fit(_, _)
Utf8Fit(s, room) ==
    IF s = <<>> \/ Len(Utf8Char(Head(s))) > room THEN <<>>
    ELSE Utf8Char(Head(s)) \o Utf8Fit(Tail(s), room - Len(Utf8Char(Head(s))))

\* instance.stringToUTF8(str, ptr, maxBytesToWrite): the text and a NUL.
StringToUTF8(c, str, p, maxBytesToWrite) ==
    IF maxBytesToWrite <= 0 THEN c
    ELSE HostWrite(c, p, Append(Utf8Fit(str, maxBytesToWrite - 1), 0))

\* The bytes of a region up to the first NUL (all of them if there is none).
RECURSIVE UpToNul(_)
UpToNul(bs) ==
    IF bs = <<>> \/ Head(bs) = 0 THEN <<>> ELSE <<Head(bs)>> \o UpToNul(Tail(bs))

\* UTF-8 to UTF-16 code units; a malformed byte becomes U+FFFD.
RECURSIVE Utf8Decode(_)
Utf8Decode(bs) ==
    IF bs = <<>> THEN <<>>
    ELSE IF bs[1] < 128 THEN <<bs[1]>> \o Utf8Decode(Tail(bs))
    ELSE IF bs[1] >= 192 /\ bs[1] < 224 /\ Len(bs) >= 2
    THEN <<(bs[1] - 192) * 64 + (bs[2] % 64)>> \o Utf8Decode(Drop(bs, 2))
    ELSE IF bs[1] >= 224 /\ bs[1] < 240 /\ Len(bs) >= 3
    THEN <<(bs[1] - 224) * 4096 + (bs[2] % 64) * 64 + (bs[3] % 64)>>
         \o Utf8Decode(Drop(bs, 3))
    ELSE <<65533>> \o Utf8Decode(Tail(bs))

\* instance.UTF8ToString(ptr); a null pointer reads as the empty string.
UTF8ToString(c, p) ==
    LET bs == UpToNul(c.mem[p])
    IN  IF p = 0 THEN [c EXCEPT !.ret = <<>>]
        ELSE [c EXCEPT !.ret = Utf8Decode(bs),
                       !.trace = Append(@, Ev("read", "", p, Len(bs) + 1, 0, 0))]

\* ------------------------------------------------ the wrapped library

\* What the library and its allocator do in one invocation, chosen by the
\* environment: f1, f2 the facade's first and second _malloc fail; f3 the
\* malloc inside the glue procedure fails; st the status the procedure
\* returns; err the code ERR_get_error finds (0: the queue is empty);
\* rnd the bytes the generator produces; bio: BIO_read reports an error;
\* ovf: a byte written past the end of a buffer lands on the allocator's
\* bookkeeping rather than in padding.
OkEnv ==
    [f1 |-> FALSE, f2 |-> FALSE, f3 |-> FALSE, st |-> 1, err |-> 0,
     rnd |-> <<>>, bio |-> FALSE, ovf |-> FALSE]

\* Codes ERR_get_error can return on a failure path.
ErrCodes == {0, 1}

\* EVP_MD_size of the five digests.
MdSize(alg) ==
    CASE alg = "sha1" -> 20
      [] alg = "sha256" -> 32
      [] alg = "sha384" -> 48
      [] alg = "sha512" -> 64
      [] alg = "md5" -> 16

RECURSIVE Sum(_)
Sum(bs) == IF bs = <<>> THEN 0 ELSE Head(bs) + Sum(Tail(bs))

\* The digest transform is not part of this repository: a stand-in that is
\* a function of the algorithm and the input and has the algorithm's size.
MdBytes(alg, input) ==
    [i \in 1..MdSize(alg) |-> (MdSize(alg) + 7 * Len(input) + Sum(input) + i) % 256]

\* int random_bytes(unsigned char* buf, int len): RAND_bytes' status; the
\* buffer is filled only on success.
random_bytes(c, buf, len, env) ==
    [c EXCEPT !.mem = IF env.st = 1 THEN Store(@, buf, Take(env.rnd, len)) ELSE @,
              !.ret = env.st,
              !.trace = Append(@, Ev("call", "random_bytes", buf, len, env.st, 0))]

\* int <alg>_digest(data, data_len, md): 1 with the digest written to md, or
\* 0 when the context cannot be made or a digest step fails.
digest(c, alg, data, data_len, md, env) ==
    LET st == IF env.st = 1 THEN 1 ELSE 0
    IN  [c EXCEPT !.mem = IF st = 1
                          THEN Store(@, md, MdBytes(alg, Load(c.mem, data, data_len)))
                          ELSE @,
                  !.ret = st,
                  !.trace = Append(@, Ev("call", alg, data, data_len, st, 0))]

\* ERR_error_string_n of an error code.
ErrorString(err) == <<"error:", err>>

\* const char* get_error_string(): NULL when the error queue is empty; the
\* 'string' return kind of cwrap turns NULL into the empty string.
get_error_string(c, env) ==
    [c EXCEPT !.ret = IF env.err = 0 THEN <<>> ELSE ErrorString(env.err),
              !.trace = Append(@, Ev("call", "get_error_string", 0, 0, env.err, 0))]

\* The base64 alphabet.
B64Char(i) ==
    IF i < 26 THEN 65 + i
    ELSE IF i < 52 THEN 97 + (i - 26)
    ELSE IF i < 62 THEN 48 + (i - 52)
    ELSE IF i = 62 THEN 43 ELSE 47

\* EVP_EncodeBlock, as the base64 BIO applies it with BIO_FLAGS_BASE64_NO_NL.
RECURSIVE EncodeBlock(_)
EncodeBlock(bs) ==
    IF bs = <<>> THEN <<>>
    ELSE IF Len(bs) = 1
    THEN <<B64Char(bs[1] \div 4), B64Char((bs[1] % 4) * 16), 61, 61>>
    ELSE IF Len(bs) = 2
    THEN <<B64Char(bs[1] \div 4), B64Char((bs[1] % 4) * 16 + bs[2] \div 16),
           B64Char((bs[2] % 16) * 4), 61>>
    ELSE <<B64Char(bs[1] \div 4), B64Char((bs[1] % 4) * 16 + bs[2] \div 16),
           B64Char((bs[2] % 16) * 4 + bs[3] \div 64), B64Char(bs[3] % 64)>>
         \o EncodeBlock(Drop(bs, 3))

\* conv_ascii2bin: 0..63 for the alphabet, 0 for '=', 224 white space,
\* 240 line feed, 241 carriage return, 242 '-' (end of data), 255 invalid.
Ascii2Bin(ch) ==
    IF ch >= 65 /\ ch <= 90 THEN ch - 65
    ELSE IF ch >= 97 /\ ch <= 122 THEN ch - 71
    ELSE IF ch >= 48 /\ ch <= 57 THEN ch + 4
    ELSE IF ch = 43 THEN 62
    ELSE IF ch = 47 THEN 63
    ELSE IF ch = 61 THEN 0
    ELSE IF ch = 32 \/ ch = 9 THEN 224
    ELSE IF ch = 10 THEN 240
    ELSE IF ch = 13 THEN 241
    ELSE IF ch = 45 THEN 242
    ELSE 255

IsWs(ch) == Ascii2Bin(ch) = 224

NotBase64(ch) == Ascii2Bin(ch) \in {224, 240, 241, 242}

RECURSIVE TrimLeft(_)
TrimLeft(f) == IF f # <<>> /\ IsWs(Head(f)) THEN TrimLeft(Tail(f)) ELSE f

RECURSIVE TrimRight(_)
TrimRight(f) ==
    IF Len(f) > 3 /\ NotBase64(f[Len(f)]) THEN TrimRight(Take(f, Len(f) - 1)) ELSE f

RECURSIVE DecodeQuads(_)
DecodeQuads(f) ==
    IF f = <<>> THEN [ok |-> TRUE, out |-> <<>>]
    ELSE LET a == Ascii2Bin(f[1])
             b == Ascii2Bin(f[2])
             cc == Ascii2Bin(f[3])
             d == Ascii2Bin(f[4])
             rest == DecodeQuads(Drop(f, 4))
         IN  IF a >= 128 \/ b >= 128 \/ cc >= 128 \/ d >= 128 \/ ~rest.ok
             THEN [ok |-> FALSE, out |-> <<>>]
             ELSE [ok |-> TRUE,
                   out |-> <<a * 4 + b \div 16, (b % 16) * 16 + cc \div 4,
                             (cc % 4) * 64 + d>> \o rest.out]

\* EVP_DecodeBlock: -1 (ok = FALSE) on a malformed block.
DecodeBlock(f) ==
    LET g == TrimRight(TrimLeft(f))
    IN  IF Len(g) % 4 # 0 THEN [ok |-> FALSE, out |-> <<>>] ELSE DecodeQuads(g)

\* One BIO_read through the base64 filter with BIO_FLAGS_BASE64_NO_NL: the
\* whole groups of four are decoded, one byte is dropped for each of the
\* last two characters that is '=', and a malformed block gives no bytes.
B64Read(in) ==
    LET jj == Len(in) - (Len(in) % 4)
        blk == DecodeBlock(Take(in, jj))
        pad == IF jj > 2
               THEN (IF in[jj] = 61 THEN (IF in[jj - 1] = 61 THEN 2 ELSE 1) ELSE 0)
               ELSE 0
    IN  IF ~blk.ok \/ Len(blk.out) - pad <= 0 THEN <<>>
        ELSE Take(blk.out, Len(blk.out) - pad)

\* char* base64_encode(in, in_len, out_len): a fresh NUL-terminated buffer
\* holding the text, its length in *out_len; NULL when malloc fails.
base64_encode(c, in, in_len, out_len, env) ==
    LET txt == EncodeBlock(Load(c.mem, in, in_len))
        d == Allocate(c, Len(txt) + 1, env.f3)
        buf == d.ret
    IN  IF buf = 0
        THEN [d EXCEPT !.trace = Append(@, Ev("call", "base64_encode", in, in_len, 0, 0))]
        ELSE [d EXCEPT !.mem = Store(Store(@, buf, Append(txt, 0)), out_len, I32Bytes(Len(txt))),
                       !.trace = Append(@, Ev("call", "base64_encode", in, in_len, buf, Len(txt)))]

\* unsigned char* base64_decode(in, in_len, out_len): a fresh buffer of
\* in_len bytes holding what BIO_read decoded, and BIO_read's return value,
\* unchecked, in *out_len; NULL when malloc fails.
base64_decode(c, in, in_len, out_len, env) ==
    LET d == Allocate(c, in_len, env.f3)
        buf == d.ret
        dec == IF env.bio THEN <<>> ELSE B64Read(Load(c.mem, in, in_len))
        n == IF env.bio THEN -1 ELSE Len(dec)
    IN  IF buf = 0
        THEN [d EXCEPT !.trace = Append(@, Ev("call", "base64_decode", in, in_len, 0, 0))]
        ELSE [d EXCEPT !.mem = Store(Store(@, buf, dec), out_len, I32Bytes(n)),
                       !.trace = Append(@, Ev("call", "base64_decode", in, in_len, buf, n))]

\* ------------------------------------------------- the OpenSSL facade

SHA1_DIGEST_LENGTH == 20

SHA256_DIGEST_LENGTH == 32

SHA384_DIGEST_LENGTH == 48

SHA512_DIGEST_LENGTH == 64

MD5_DIGEST_LENGTH == 16

\* sizeof(int): the side buffer that receives the output length.
OUT_LEN_SIZE == 4

\* Mutant: the status test written as (result === 0).
FailedOnlyOnZero(result) == result = 0

\* if (result !== 1)
Failed(result) == result # 1

\* The template literal `${prefix}${this._get_error_string()}`.
ErrorMessage(prefix, diagnostic) == <<prefix, diagnostic>>

\* Mutant: the first buffer is released before the diagnostic is fetched.
ThrowDiagnosticAfterFree(c, prefix, env) ==
    LET d == get_error_string(Free(c, c.trace[1].r), env)
    IN  [ctx |-> d, out |-> Throw(ErrorMessage(prefix, d.ret))]

\* throw new Error(`...: ${this._get_error_string()}`): the diagnostic is
\* fetched while the message is built, inside the try block.
ThrowDiagnostic(c, prefix, env) ==
    LET d == get_error_string(c, env)
    IN  [ctx |-> d, out |-> Throw(ErrorMessage(prefix, d.ret))]

\* What an invocation leaves behind; an exception raised inside the finally
\* block replaces the result or the error of the try block.
Finish(c, out) ==
    [heap |-> c.heap, trace |-> c.trace,
     out |-> IF c.fault THEN Throw(<<"RuntimeError">>) ELSE out]

randomBytesTry(c, ptr, length, env) ==
    LET c1 == random_bytes(c, ptr, length, env)
    IN  IF Failed(c1.ret)
        THEN ThrowDiagnostic(c1, "Failed to generate random bytes: ", env)
        ELSE LET c2 == HostRead(c1, ptr, length)
             IN  [ctx |-> c2, out |-> Return(Bytes(c2.ret))]

randomBytes(h, length, env) ==
    LET c1 == Malloc(Enter(h, env), length, env.f1)
        ptr == c1.ret
        t == randomBytesTry(c1, ptr, length, env)
    IN  Finish(Free(t.ctx, ptr), t.out)

\* The try block shared, up to its constants, by the five digest methods.
DigestTry(c, alg, digestLength, prefix, inputData, dataPtr, digestPtr, env) ==
    LET c1 == HostWrite(c, dataPtr, inputData)
        c2 == digest(c1, alg, dataPtr, Len(inputData), digestPtr, env)
    IN  IF Failed(c2.ret)
        THEN ThrowDiagnostic(c2, prefix, env)
        ELSE LET c3 == HostRead(c2, digestPtr, digestLength)
             IN  [ctx |-> c3, out |-> Return(Bytes(c3.ret))]

DigestOp(h, alg, digestLength, prefix, data, env) ==
    LET inputData == InputData(data)
        c1 == Malloc(Enter(h, env), Len(inputData), env.f1)
        dataPtr == c1.ret
        c2 == Malloc(c1, digestLength, env.f2)
        digestPtr == c2.ret
        t == DigestTry(c2, alg, digestLength, prefix, inputData, dataPtr, digestPtr, env)
    IN  Finish(Free(Free(t.ctx, dataPtr), digestPtr), t.out)

sha1(h, data, env) ==
    DigestOp(h, "sha1", SHA1_DIGEST_LENGTH, "SHA-1 digest failed: ", data, env)

sha256(h, data, env) ==
    DigestOp(h, "sha256", SHA256_DIGEST_LENGTH, "SHA-256 digest failed: ", data, env)

\* Mutant: SHA-384 read back with the SHA-256 length.
sha384ShortRead(h, data, env) ==
    DigestOp(h, "sha384", SHA256_DIGEST_LENGTH, "SHA-384 digest failed: ", data, env)

sha384(h, data, env) ==
    DigestOp(h, "sha384", SHA384_DIGEST_LENGTH, "SHA-384 digest failed: ", data, env)

sha512(h, data, env) ==
    DigestOp(h, "sha512", SHA512_DIGEST_LENGTH, "SHA-512 digest failed: ", data, env)

md5(h, data, env) ==
    DigestOp(h, "md5", MD5_DIGEST_LENGTH, "MD5 digest failed: ", data, env)

\* Mutant: the result buffer freed before its text is converted.
base64EncodeTryFreeFirst(c, inputData, dataPtr, outLenPtr, env) ==
    LET c1 == HostWrite(c, dataPtr, inputData)
        c2 == base64_encode(c1, dataPtr, Len(inputData), outLenPtr, env)
        resultPtr == c2.ret
    IN  IF resultPtr = 0
        THEN ThrowDiagnostic(c2, "Base64 encoding failed: ", env)
        ELSE LET c3 == Free(c2, resultPtr)
                 c4 == UTF8ToString(c3, resultPtr)
             IN  [ctx |-> c4, out |-> Return(Text(c4.ret))]

base64EncodeTry(c, inputData, dataPtr, outLenPtr, env) ==
    LET c1 == HostWrite(c, dataPtr, inputData)
        c2 == base64_encode(c1, dataPtr, Len(inputData), outLenPtr, env)
        resultPtr == c2.ret
    IN  IF resultPtr = 0
        THEN ThrowDiagnostic(c2, "Base64 encoding failed: ", env)
        ELSE LET c3 == UTF8ToString(c2, resultPtr)
                 c4 == Free(c3, resultPtr)
             IN  [ctx |-> c4, out |-> Return(Text(c3.ret))]

base64Encode(h, data, env) ==
    LET inputData == InputData(data)
        c1 == Malloc(Enter(h, env), Len(inputData), env.f1)
        dataPtr == c1.ret
        c2 == Malloc(c1, OUT_LEN_SIZE, env.f2)
        outLenPtr == c2.ret
        t == base64EncodeTry(c2, inputData, dataPtr, outLenPtr, env)
    IN  Finish(Free(Free(t.ctx, dataPtr), outLenPtr), t.out)

\* new Uint8Array(outLen) throws a RangeError for a negative length: the
\* try block is left before the copy and before _free(resultPtr).
\* Mutant: the result copied out with the input's length, not the reported one.
base64DecodeTryInLen(c, data, dataPtr, outLenPtr, env) ==
    LET c1 == StringToUTF8(c, data, dataPtr, Len(data) + 1)
        c2 == base64_decode(c1, dataPtr, Len(data), outLenPtr, env)
        resultPtr == c2.ret
    IN  IF resultPtr = 0
        THEN ThrowDiagnostic(c2, "Base64 decoding failed: ", env)
        ELSE LET c3 == GetValueI32(c2, outLenPtr)
                 c4 == HostRead(c3, resultPtr, Len(data))
                 c5 == Free(c4, resultPtr)
             IN  [ctx |-> c5, out |-> Return(Bytes(c4.ret))]

base64DecodeTry(c, data, dataPtr, outLenPtr, env) ==
    LET c1 == StringToUTF8(c, data, dataPtr, Len(data) + 1)
        c2 == base64_decode(c1, dataPtr, Len(data), outLenPtr, env)
        resultPtr == c2.ret
    IN  IF resultPtr = 0
        THEN ThrowDiagnostic(c2, "Base64 decoding failed: ", env)
        ELSE LET c3 == GetValueI32(c2, outLenPtr)
                 outLen == c3.ret
             IN  IF outLen < 0
                 THEN [ctx |-> c3, out |-> Throw(<<"Invalid typed array length">>)]
                 ELSE LET c4 == HostRead(c3, resultPtr, outLen)
                          c5 == Free(c4, resultPtr)
                      IN  [ctx |-> c5, out |-> Return(Bytes(c4.ret))]

base64Decode(h, data, env) ==
    LET c1 == Malloc(Enter(h, env), Len(data), env.f1)
        dataPtr == c1.ret
        c2 == Malloc(c1, OUT_LEN_SIZE, env.f2)
        outLenPtr == c2.ret
        t == base64DecodeTry(c2, data, dataPtr, outLenPtr, env)
    IN  Finish(Free(Free(t.ctx, dataPtr), outLenPtr), t.out)

\* const char* openssl_version(): the library's version text (OpenSSL 3.0.9
\* in this build, shortened here to its number); the 'string' return kind of
\* cwrap copies it out of the library's static storage.
OPENSSL_VERSION_TEXT == <<51, 46, 48, 46, 57>>

openssl_version(c) ==
    [c EXCEPT !.ret = OPENSSL_VERSION_TEXT,
              !.trace = Append(@, Ev("call", "openssl_version", 0, 0, 0, 0))]

\* void openssl_cleanup()
openssl_cleanup(c) ==
    [c EXCEPT !.trace = Append(@, Ev("call", "openssl_cleanup", 0, 0, 0, 0))]

\* version(): return this._openssl_version();
version(h) ==
    LET c == openssl_version(Enter(h, OkEnv))
    IN  Finish(c, Return(Text(c.ret)))

\* Mutant: cleanup without the test of the flag.
cleanupAlways(h, flag) ==
    [r |-> Finish(openssl_cleanup(Enter(h, OkEnv)), Return(NoValue)), initialized |-> FALSE]

\* cleanup(): if (this.initialized) { this._openssl_cleanup();
\* this.initialized = false; }
cleanup(h, flag) ==
    IF flag
    THEN [r |-> Finish(openssl_cleanup(Enter(h, OkEnv)), Return(NoValue)), initialized |-> FALSE]
    ELSE [r |-> Finish(Enter(h, OkEnv), Return(NoValue)), initialized |-> flag]

\* Mutant: toHex staging its input in a foreign scratch buffer.
toHexViaScratch(h, data) ==
    LET c == Malloc(Enter(h, OkEnv), Len(data), FALSE)
        d == Free(HostWrite(c, c.ret, data), c.ret)
    IN  [heap |-> d.heap, trace |-> d.trace, out |-> Return(Text(toHex(data)))]

\* toHex(data) and fromHex(hex) as the handle runs them: no foreign call.
toHexCall(h, data) == [heap |-> h, trace |-> <<>>, out |-> Return(Text(toHex(data)))]

fromHexCall(h, hex) == [heap |-> h, trace |-> <<>>, out |-> fromHex(hex)]

\* The methods class OpenSSL declares: what a handle answers to.
HandleMethods ==
    {"version", "cleanup", "randomBytes", "sha1", "sha256", "sha384", "sha512",
     "md5", "base64Encode", "base64Decode", "toHex", "fromHex"}

\* The operations the API reference documents on the handle.
DocumentedSurface ==
    {"version", "cleanup", "randomBytes", "sha1", "sha256", "sha384", "sha512",
     "md5", "aesEncrypt", "aesDecrypt", "generateRsaKeyPair", "rsaEncrypt",
     "rsaDecrypt", "rsaSign", "rsaVerify", "base64Encode", "base64Decode",
     "toHex", "fromHex"}

\* handle.m(...) for a name m the class does not declare: the property is
\* undefined and calling it throws a TypeError in the host.
callUndeclared(h, m) ==
    [heap |-> h, trace |-> <<>>, out |-> Throw(<<"TypeError", m, "is not a function">>)]

\* ---------------------------------------------------------- initialize

\* The foreign procedures the constructor binds with cwrap.
Symbols ==
    {"openssl_version", "openssl_init", "openssl_cleanup", "random_bytes",
     "sha1_digest", "sha256_digest", "sha384_digest", "sha512_digest",
     "md5_digest", "base64_encode", "base64_decode", "get_error_string"}

\* What awaiting OpenSSLWasmModule() can yield: a rejection, or an instance
\* with its export table, the status its openssl_init returns and the kind
\* of runtime it carries (an assertions runtime refuses, inside cwrap, to
\* bind a name that is not exported; the optimised runtime the build script
\* asks for hands back an unusable binding and says nothing).
Modules ==
    {[loaded |-> FALSE, exports |-> {}, status |-> 0, assertions |-> FALSE]}
    \cup {[loaded |-> TRUE, exports |-> Symbols \ x, status |-> st, assertions |-> a] :
              x \in {{}} \cup {{y} : y \in Symbols}, st \in {1, 0, -1}, a \in BOOLEAN}

\* No handle yet, and the handle of a binary that exports every symbol.
NoHandle == [made |-> FALSE, bound |-> {}]

FullHandle == [made |-> TRUE, bound |-> Symbols]

\* int openssl_init()
openssl_init(c, status) ==
    [c EXCEPT !.ret = status,
              !.trace = Append(@, Ev("call", "openssl_init", 0, 0, status, 0))]

\* new OpenSSL(instance): twelve cwrap bindings, none of them looked at,
\* then openssl_init; the handle exists only if the constructor returns.
construct(module) ==
    IF module.assertions /\ ~(Symbols \subseteq module.exports)
    THEN [handle |-> NoHandle, initialized |-> FALSE, trace |-> <<>>,
          out |-> Throw(<<"Assertion failed", "Cannot call unknown function">>)]
    ELSE IF "openssl_init" \notin module.exports
    THEN [handle |-> NoHandle, initialized |-> FALSE, trace |-> <<>>,
          out |-> Throw(<<"TypeError", "_openssl_init", "is not a function">>)]
    ELSE LET c == openssl_init(Enter(EmptyHeap, OkEnv), module.status)
         IN  IF Failed(c.ret)
             THEN [handle |-> NoHandle, initialized |-> FALSE, trace |-> c.trace,
                   out |-> Throw(<<"Failed to initialize OpenSSL">>)]
             ELSE [handle |-> [made |-> TRUE, bound |-> Symbols \cap module.exports],
                   initialized |-> TRUE, trace |-> c.trace, out |-> Return(NoValue)]

\* async initialize(): after the await, the constructor; a rejected module
\* promise rejects initialize.
initialize(module) ==
    IF ~module.loaded
    THEN [handle |-> NoHandle, initialized |-> FALSE, trace |-> <<>>,
          out |-> Throw(<<"module failed to load">>)]
    ELSE construct(module)

\* Mutant: sha256 written as an async method that awaits between its
\* allocations and its foreign call.
AwaitInsideDigest(op) ==
    IF op = "initialize" THEN {0} ELSE IF op = "sha256" THEN {2} ELSE {}

\* The await expressions in a method, as positions in its sequence of
\* foreign events (0: before the first): one in initialize, none in the
\* methods of the class, which are not async.
AwaitPoints(op) == IF op = "initialize" THEN {0} ELSE {}

\* ------------------------------------------------------ the state machine

VARIABLES
    pc,       \* "idle": no call in progress; "done": a call has just ended
    heap,     \* the live addresses of the foreign heap
    trace,    \* the foreign calls and memory accesses of the last call
    outcome,  \* the last call: operation, argument, and what it handed back
    initialized, \* the handle's private flag
    handle,   \* the handle: whether it exists and which bindings resolved
    tasks,    \* per caller: the call it has in progress on the event loop
    running,  \* the caller whose code the host is executing (0: none)
    log       \* the foreign events since the loop was last quiet, by caller

loopVars == <<handle, tasks, running, log>>

vars == <<pc, heap, trace, outcome, initialized, handle, tasks, running, log>>

Callers == {1, 2}

IdleTask == [op |-> "none", st |-> "idle", pos |-> 0, res |-> NoValue]

NoOutcome == [op |-> "none", arg |-> NoValue, kind |-> "none", value |-> NoValue, msg |-> <<>>]

Outcome(op, arg, out) ==
    [op |-> op, arg |-> arg, kind |-> out.kind, value |-> out.value, msg |-> out.msg]

\* The allocator outcomes of the facade's own two _malloc calls.
AllocEnvs == {[OkEnv EXCEPT !.f1 = a, !.f2 = b] : a, b \in BOOLEAN}

RandomEnvs(n) ==
    {[OkEnv EXCEPT !.f1 = a, !.rnd = r] : a \in BOOLEAN, r \in [1..n -> ByteVals]}
    \cup {[OkEnv EXCEPT !.f1 = a, !.st = s, !.err = e] :
             a \in BOOLEAN, s \in {0, -1}, e \in ErrCodes}

DigestEnvs ==
    AllocEnvs \cup {[v EXCEPT !.st = 0, !.err = e] : v \in AllocEnvs, e \in ErrCodes}

EncodeEnvs ==
    AllocEnvs \cup {[v EXCEPT !.f3 = TRUE, !.err = e] : v \in AllocEnvs, e \in ErrCodes}

DecodeEnvs ==
    LET E == EncodeEnvs \cup {[v EXCEPT !.bio = TRUE] : v \in AllocEnvs}
    IN  E \cup {[v EXCEPT !.ovf = TRUE] : v \in E}

\* What callers pass where bytes or text are accepted.
DataInputs == {Bytes(b) : b \in ByteSeqs} \cup {Text(t) : t \in Texts}

\* The texts base64Encode returns when nothing fails.
EncodedText(b) == base64Encode(EmptyHeap, Bytes(b), OkEnv).out.value.v

\* Texts handed to the decoders: arbitrary ones and encoder outputs.
HexInputs == Texts \cup {toHex(b) : b \in ByteSeqs}

Base64Inputs == Texts \cup {EncodedText(b) : b \in ByteSeqs}

Init ==
    /\ pc = "idle"
    /\ heap = EmptyHeap
    /\ trace = <<>>
    /\ outcome = NoOutcome
    /\ initialized = TRUE
    /\ handle = FullHandle
    /\ tasks = [c \in Callers |-> IdleTask]
    /\ running = 0
    /\ log = <<>>

Done(op, arg, r) ==
    /\ pc' = "done"
    /\ heap' = r.heap
    /\ trace' = r.trace
    /\ outcome' = Outcome(op, arg, r.out)
    /\ UNCHANGED <<initialized, loopVars>>

Version ==
    /\ pc = "idle"
    /\ Done("version", NoValue, version(heap))

Cleanup ==
    /\ pc = "idle"
    /\ LET k == cleanup(heap, initialized)
       IN  /\ pc' = "done"
           /\ heap' = k.r.heap
           /\ trace' = k.r.trace
           /\ outcome' = Outcome("cleanup", NoValue, k.r.out)
           /\ initialized' = k.initialized
           /\ UNCHANGED loopVars

\* A caller uses an operation of the documented surface that the class
\* does not declare.
CallUndeclared ==
    /\ pc = "idle"
    /\ \E m \in DocumentedSurface \ HandleMethods :
           Done(m, NoValue, callUndeclared(heap, m))

\* Mutant: randomBytes refusing to run on a handle that was cleaned up.
RandomBytesWhenInitialized ==
    /\ pc = "idle"
    /\ IF initialized
       THEN \E n \in Lengths : \E env \in RandomEnvs(n) :
                Done("randomBytes", Bytes(<<n>>), randomBytes(heap, n, env))
       ELSE Done("randomBytes", Bytes(<<0>>),
                 [heap |-> heap, trace |-> <<>>,
                  out |-> Throw(<<"OpenSSL is not initialized">>)])

RandomBytes ==
    /\ pc = "idle"
    /\ \E n \in Lengths : \E env \in RandomEnvs(n) :
           Done("randomBytes", Bytes(<<n>>), randomBytes(heap, n, env))

Sha1 ==
    /\ pc = "idle"
    /\ \E data \in DataInputs, env \in DigestEnvs :
           Done("sha1", data, sha1(heap, data, env))

Sha256 ==
    /\ pc = "idle"
    /\ \E data \in DataInputs, env \in DigestEnvs :
           Done("sha256", data, sha256(heap, data, env))

Sha384 ==
    /\ pc = "idle"
    /\ \E data \in DataInputs, env \in DigestEnvs :
           Done("sha384", data, sha384(heap, data, env))

Sha512 ==
    /\ pc = "idle"
    /\ \E data \in DataInputs, env \in DigestEnvs :
           Done("sha512", data, sha512(heap, data, env))

Md5 ==
    /\ pc = "idle"
    /\ \E data \in DataInputs, env \in DigestEnvs :
           Done("md5", data, md5(heap, data, env))

Base64Encode ==
    /\ pc = "idle"
    /\ \E data \in DataInputs, env \in EncodeEnvs :
           Done("base64Encode", data, base64Encode(heap, data, env))

Base64Decode ==
    /\ pc = "idle"
    /\ \E t \in Base64Inputs, env \in DecodeEnvs :
           Done("base64Decode", Text(t), base64Decode(heap, t, env))

ToHex ==
    /\ pc = "idle"
    /\ \E b \in ByteSeqs :
           Done("toHex", Bytes(b), toHexCall(heap, b))

FromHex ==
    /\ pc = "idle"
    /\ \E t \in HexInputs :
           Done("fromHex", Text(t), fromHexCall(heap, t))

\* The caller takes the result (or catches the error) and the call is over.
Complete ==
    /\ pc = "done"
    /\ pc' = "idle"
    /\ trace' = <<>>
    /\ outcome' = NoOutcome
    /\ UNCHANGED <<heap, initialized, loopVars>>

Next ==
    \/ RandomBytes
    \/ Sha1
    \/ Sha256
    \/ Sha384
    \/ Sha512
    \/ Md5
    \/ Base64Encode
    \/ Base64Decode
    \/ ToHex
    \/ FromHex
    \/ Version
    \/ Cleanup
    \/ CallUndeclared
    \/ Complete

Spec == Init /\ [][Next]_vars

\* ------------------------------------------- callers on the event loop

\* What the callers of this part do with the handle, and with what.
CallerOps ==
    {"randomBytes", "sha256", "base64Encode", "base64Decode", "toHex", "version",
     "cleanup"}

\* The binding a method calls first.
Primary(op) ==
    CASE op = "randomBytes" -> {"random_bytes"}
      [] op = "sha256" -> {"sha256_digest"}
      [] op = "base64Encode" -> {"base64_encode"}
      [] op = "base64Decode" -> {"base64_decode"}
      [] op = "version" -> {"openssl_version"}
      [] op = "cleanup" -> {"openssl_cleanup"}
      [] OTHER -> {}

CallerEnvs == {[OkEnv EXCEPT !.rnd = <<10>>], [OkEnv EXCEPT !.st = 0, !.f3 = TRUE, !.err = 1]}

\* The method run on heap h: what it leaves and the flag after it.
Run(op, h, flag, env) ==
    CASE op = "randomBytes" -> [r |-> randomBytes(h, 1, env), initialized |-> flag]
      [] op = "sha256" -> [r |-> sha256(h, Bytes(<<10>>), env), initialized |-> flag]
      [] op = "base64Encode" -> [r |-> base64Encode(h, Bytes(<<255>>), env), initialized |-> flag]
      [] op = "base64Decode" -> [r |-> base64Decode(h, <<47, 119, 61, 61>>, env), initialized |-> flag]
      [] op = "toHex" -> [r |-> toHexCall(h, <<10, 255>>), initialized |-> flag]
      [] op = "version" -> [r |-> version(h), initialized |-> flag]
      [] op = "cleanup" -> cleanup(h, flag)

InitLoop ==
    /\ pc = "idle"
    /\ heap = EmptyHeap
    /\ trace = <<>>
    /\ outcome = NoOutcome
    /\ initialized = FALSE
    /\ handle = NoHandle
    /\ tasks = [c \in Callers |-> IdleTask]
    /\ running = 0
    /\ log = <<>>

\* Where a task goes after pos events: to sleep at an await, else on.
After(op, pos) == IF pos \in AwaitPoints(op) THEN "suspended" ELSE "running"

\* The host takes a task from its queue: caller c calls initialize().
CallInitialize(c) ==
    /\ running = 0
    /\ tasks[c].st = "idle"
    /\ tasks' = [tasks EXCEPT ![c] =
                     [op |-> "initialize", st |-> After("initialize", 0), pos |-> 0,
                      res |-> NoValue]]
    /\ running' = IF After("initialize", 0) = "running" THEN c ELSE 0
    /\ UNCHANGED <<pc, heap, trace, outcome, initialized, handle, log>>

\* Caller c calls a method of the handle whose binding resolved.
CallMethod(c) ==
    /\ running = 0
    /\ tasks[c].st = "idle"
    /\ handle.made
    /\ \E op \in CallerOps, env \in CallerEnvs :
           /\ Primary(op) \cup {"get_error_string"} \subseteq handle.bound
           /\ tasks' = [tasks EXCEPT ![c] =
                            [op |-> op, st |-> After(op, 0), pos |-> 0,
                             res |-> Run(op, heap, initialized, env)]]
           /\ running' = IF After(op, 0) = "running" THEN c ELSE 0
    /\ UNCHANGED <<pc, heap, trace, outcome, initialized, handle, log>>

\* The awaited promise settles and the task goes on; for initialize it
\* settles with the module, and the constructor's run is what remains.
Resume(c) ==
    /\ running = 0
    /\ tasks[c].st = "suspended"
    /\ running' = c
    /\ IF tasks[c].op = "initialize" /\ tasks[c].res = NoValue
       THEN \E module \in Modules :
                tasks' = [tasks EXCEPT ![c].st = "running",
                                       ![c].res = [module |-> module, r |-> initialize(module)]]
       ELSE tasks' = [tasks EXCEPT ![c].st = "running"]
    /\ UNCHANGED <<pc, heap, trace, outcome, initialized, handle, log>>

\* The running task makes its next foreign call or memory access.
Step(c) ==
    /\ running = c
    /\ tasks[c].st = "running"
    /\ tasks[c].pos < Len(tasks[c].res.r.trace)
    /\ log' = Append(log, [who |-> c, ev |-> tasks[c].res.r.trace[tasks[c].pos + 1]])
    /\ tasks' = [tasks EXCEPT ![c].pos = @ + 1,
                              ![c].st = After(tasks[c].op, tasks[c].pos + 1)]
    /\ running' = IF After(tasks[c].op, tasks[c].pos + 1) = "running" THEN c ELSE 0
    /\ UNCHANGED <<pc, heap, trace, outcome, initialized, handle>>

\* The running task returns or throws; the first handle made is the handle.
Finished(c) ==
    /\ running = c
    /\ tasks[c].st = "running"
    /\ tasks[c].pos = Len(tasks[c].res.r.trace)
    /\ running' = 0
    /\ tasks' = [tasks EXCEPT ![c] = IdleTask]
    /\ log' = IF \A d \in Callers \ {c} : tasks[d].st = "idle" \/ tasks[d].pos = 0
              THEN <<>> ELSE log
    /\ IF tasks[c].op = "initialize"
       THEN /\ handle' = IF handle.made \/ tasks[c].res.r.out.kind = "throw"
                         THEN handle ELSE tasks[c].res.r.handle
            /\ initialized' = IF handle.made \/ tasks[c].res.r.out.kind = "throw"
                              THEN initialized ELSE tasks[c].res.r.initialized
            /\ UNCHANGED heap
       ELSE /\ heap' = tasks[c].res.r.heap
            /\ initialized' = tasks[c].res.initialized
            /\ UNCHANGED handle
    /\ UNCHANGED <<pc, trace, outcome>>

NextLoop ==
    \/ \E c \in Callers : CallInitialize(c)
    \/ \E c \in Callers : CallMethod(c)
    \/ \E c \in Callers : Resume(c)
    \/ \E c \in Callers : Step(c)
    \/ \E c \in Callers : Finished(c)

SpecLoop == InitLoop /\ [][NextLoop]_vars

\* ------------------------------------------------------------ properties

\* Reading the trace of the call that has just ended.
Events(k) == {i \in 1..Len(trace) : trace[i].k = k}

BoundCalls == {i \in Events("call") : trace[i].f # "get_error_string"}

DiagnosticCalls == {i \in Events("call") : trace[i].f = "get_error_string"}

\* Failure as each bound procedure reports it: a null result pointer for
\* the base64 procedures, a status other than 1 for the others.
ReportsFailure(e) ==
    IF e.f \in {"base64_encode", "base64_decode"} THEN e.r = 0
    ELSE IF e.f \in {"openssl_version", "openssl_cleanup"} THEN FALSE
    ELSE e.r # 1

FailedCalls == {i \in BoundCalls : ReportsFailure(trace[i])}

\* The buffers the call came to own: non-null results of its own _malloc
\* calls and non-null result buffers handed over by the base64 procedures.
MallocResults == {trace[i].r : i \in Events("_malloc")} \ {0}

ResultBuffers ==
    {trace[i].r : i \in {j \in BoundCalls : trace[j].f \in {"base64_encode", "base64_decode"}}} \ {0}

OwnedBuffers == MallocResults \cup ResultBuffers

FfiOps ==
    {"randomBytes", "sha1", "sha256", "sha384", "sha512", "md5",
     "base64Encode", "base64Decode"}

\* C1: after any sequence of public operations, each ended by a return or
\* by a thrown error, the number of outstanding foreign allocations is what
\* it was before the sequence (none, at construction).
C1_NoForeignLeak == pc = "done" => Outstanding(heap) = 0

\* C2: within one invocation _free is called exactly once for each buffer
\* the invocation owns and never for anything else: no address twice, and
\* no address that a successful allocation of the invocation did not return.
C2_FreeExactlyOnce ==
    pc = "done" =>
        /\ \A i \in Events("_free") : trace[i].a \in OwnedBuffers
        /\ \A i, j \in Events("_free") : trace[i].a = trace[j].a => i = j
        /\ \A a \in OwnedBuffers : \E i \in Events("_free") : trace[i].a = a

\* C3: if a _malloc of the operation returns the zero sentinel, the
\* operation frees what it had allocated and throws, without writing to
\* foreign memory and without invoking the bound procedure.
C3_AllocationFailureSignalled ==
    (pc = "done" /\ \E i \in Events("_malloc") : trace[i].r = 0) =>
        /\ outcome.kind = "throw"
        /\ Events("write") = {}
        /\ BoundCalls = {}
        /\ MallocResults \cap heap = {}

\* C4: randomBytes(n) returns a byte array of length exactly n if and only
\* if random_bytes returned status 1; for every other status it throws and
\* returns nothing, and what it returns holds no byte the generator did not
\* write.
C4_RandomBytesLoud ==
    (pc = "done" /\ outcome.op = "randomBytes") =>
        /\ Cardinality(BoundCalls) = 1
        /\ \A i \in BoundCalls :
               /\ trace[i].f = "random_bytes"
               /\ (trace[i].r = 1) <=>
                      (/\ outcome.kind = "return"
                       /\ outcome.value.t = "bytes"
                       /\ Len(outcome.value.v) = outcome.arg.v[1])
               /\ trace[i].r # 1 => (outcome.kind = "throw" /\ outcome.value = NoValue)
               /\ outcome.kind = "return" =>
                      \A k \in 1..Len(outcome.value.v) : outcome.value.v[k] # Stale

C4_Witness ==
    /\ pc = "done"
    /\ outcome.op = "randomBytes"
    /\ outcome.kind = "return"
    /\ outcome.value = Bytes(<<10, 255, 0>>)
    /\ \E i \in BoundCalls : trace[i].r = 1

\* C5: whenever the bound procedure of randomBytes, a digest, base64Encode
\* or base64Decode reports failure, the operation throws an error whose
\* message carries the string get_error_string returned, and returns nothing.
C5_FailureCarriesDiagnostic ==
    (pc = "done" /\ outcome.op \in FfiOps /\ FailedCalls # {}) =>
        /\ outcome.kind = "throw"
        /\ outcome.value = NoValue
        /\ Cardinality(DiagnosticCalls) = 1
        /\ \A g \in DiagnosticCalls :
               /\ Len(outcome.msg) = 2
               /\ outcome.msg[2] = (IF trace[g].r = 0 THEN <<>> ELSE ErrorString(trace[g].r))

C5_Witness ==
    /\ pc = "done"
    /\ outcome.op = "base64Encode"
    /\ FailedCalls # {}
    /\ outcome.msg = <<"Base64 encoding failed: ", ErrorString(1)>>

\* C6: every operation returns its documented value or throws; fromHex of
\* an even-length string holding a character that is no hex digit, and
\* base64Decode of a non-empty input for which the decoder reports a length
\* of zero or less, never return a byte array.
C6_NoSilentData ==
    pc = "done" =>
        /\ (/\ outcome.op = "fromHex"
            /\ Len(outcome.arg.v) % 2 = 0
            /\ \E k \in 1..Len(outcome.arg.v) : HexValue(outcome.arg.v[k]) < 0)
           => outcome.kind = "throw"
        /\ (/\ outcome.op = "base64Decode"
            /\ outcome.arg.v # <<>>
            /\ \E i \in BoundCalls : trace[i].r # 0 /\ trace[i].o <= 0)
           => outcome.kind = "throw"

\* C7: when a bound procedure reports failure, get_error_string is the very
\* next foreign call: nothing, and in particular no _free and no other
\* procedure, comes between the two.
C7_DiagnosticFetchedFirst ==
    pc = "done" =>
        \A i \in FailedCalls : i < Len(trace) /\ (i + 1) \in DiagnosticCalls

C7_Witness ==
    /\ pc = "done"
    /\ outcome.op = "sha1"
    /\ outcome.kind = "throw"
    /\ \E i \in FailedCalls : \E j \in Events("_free") : i + 1 < j

\* The documented digest lengths (docs/API.md).
DocumentedLength(op) ==
    CASE op = "md5" -> 16
      [] op = "sha1" -> 20
      [] op = "sha256" -> 32
      [] op = "sha384" -> 48
      [] op = "sha512" -> 64

DigestOps == {"md5", "sha1", "sha256", "sha384", "sha512"}

\* C8: on every input, bytes or text, of any length including zero, on
\* which the call succeeds, md5 returns exactly 16 bytes, sha1 20, sha256
\* 32, sha384 48 and sha512 64.
C8_DigestLength ==
    (pc = "done" /\ outcome.op \in DigestOps /\ outcome.kind = "return") =>
        /\ outcome.value.t = "bytes"
        /\ Len(outcome.value.v) = DocumentedLength(outcome.op)

C8_Witness ==
    /\ pc = "done"
    /\ outcome.op = "sha384"
    /\ outcome.arg = Bytes(<<>>)
    /\ outcome.kind = "return"
    /\ Len(outcome.value.v) = 48

LowerHexChars == (48..57) \cup (97..102)

\* C9: for every byte sequence b, toHex(b) has length 2*len(b) and only the
\* characters 0-9 and a-f, and fromHex(toHex(b)) returns b.
C9_HexRoundTrip ==
    pc = "done" =>
        /\ outcome.op = "toHex" =>
               /\ outcome.kind = "return"
               /\ Len(outcome.value.v) = 2 * Len(outcome.arg.v)
               /\ \A k \in 1..Len(outcome.value.v) : outcome.value.v[k] \in LowerHexChars
               /\ fromHex(outcome.value.v) = Return(outcome.arg)
        /\ outcome.op = "fromHex" =>
               \A b \in ByteSeqs :
                   outcome.arg.v = toHex(b) =>
                       outcome.kind = "return" /\ outcome.value = Bytes(b)

C9_Witness ==
    /\ pc = "done"
    /\ outcome.op = "fromHex"
    /\ outcome.arg = Text(<<48, 97, 102, 102>>)
    /\ outcome.arg.v = toHex(<<10, 255>>)
    /\ outcome.value = Bytes(<<10, 255>>)

\* The library did what it is there for: no allocation failed and the
\* decoder read its input.
NominalRun ==
    /\ \A i \in Events("_malloc") : trace[i].r # 0
    /\ \A i \in BoundCalls : trace[i].r # 0 /\ trace[i].o >= 0

\* C10: for every byte sequence b, the empty one included,
\* base64Decode(base64Encode(b)) returns normally and equals b (even when
\* no allocation fails and the base64 BIO reads its input).
C10_Base64RoundTrip ==
    pc = "done" =>
        /\ (outcome.op = "base64Encode" /\ outcome.arg.t = "bytes" /\ NominalRun) =>
               /\ outcome.kind = "return"
               /\ outcome.value.t = "text"
               /\ base64Decode(EmptyHeap, outcome.value.v, OkEnv).out = Return(outcome.arg)
        /\ (outcome.op = "base64Decode" /\ NominalRun) =>
               \A b \in ByteSeqs :
                   outcome.arg.v = EncodedText(b) =>
                       (outcome.kind = "return" /\ outcome.value = Bytes(b))

C10_Witness ==
    /\ pc = "done"
    /\ outcome.op = "base64Decode"
    /\ NominalRun
    /\ outcome.arg = Text(<<47, 119, 61, 61>>)
    /\ outcome.arg.v = EncodedText(<<255>>)
    /\ outcome.value = Bytes(<<255>>)

\* The same for the empty sequence, whose encoding is the empty text.
C10_WitnessEmpty ==
    /\ pc = "done"
    /\ outcome.op = "base64Decode"
    /\ NominalRun
    /\ outcome.arg = Text(EncodedText(<<>>))
    /\ outcome.kind = "return"
    /\ outcome.value = Bytes(<<>>)

\* C11: the handle provides every operation of the documented public call
\* surface, the AES and RSA operations included: whichever documented
\* operation a caller uses, a method of the handle answers.
C11_FullSurface == pc = "done" => outcome.op \in HandleMethods

\* C12: initialize() resolves to a handle only if every procedure the
\* facade binds was resolved and openssl_init returned 1; otherwise it
\* rejects, and no handle with initialized = true is ever observable.
C12_InitializeAllOrNothing ==
    /\ \A c \in Callers :
           (/\ tasks[c].op = "initialize"
            /\ tasks[c].st = "running"
            /\ tasks[c].res.r.out.kind = "return")
           => /\ Symbols \subseteq tasks[c].res.module.exports
              /\ tasks[c].res.module.status = 1
    /\ (handle.made /\ initialized) => handle.bound = Symbols

\* The log positions of caller c's events.
EventsOf(c) == {i \in 1..Len(log) : log[i].who = c}

\* C13: buffer-exchange sequences never interleave: between an allocation
\* of one caller's operation and a later free of it no foreign call or
\* memory access of another caller occurs; and a task is only ever suspended
\* inside initialize().
C13_NoInterleaving ==
    /\ \A c \in Callers : \A i, k \in EventsOf(c) :
           (i < k /\ log[i].ev.k = "_malloc" /\ log[k].ev.k = "_free")
           => \A j \in i..k : log[j].who = c
    /\ \A c \in Callers : tasks[c].st = "suspended" => tasks[c].op = "initialize"

\* One caller is between its allocation and its free while the other is
\* suspended in initialize().
C13_Witness ==
    /\ running = 1
    /\ tasks[1].op = "sha256"
    /\ tasks[2].op = "initialize"
    /\ tasks[2].st = "suspended"
    /\ \E i, k \in EventsOf(1) : i < k /\ log[i].ev.k = "_malloc" /\ log[k].ev.k = "_free"
    /\ tasks[1].pos < Len(tasks[1].res.r.trace)

\* The events before event i that handed the invocation the address a:
\* its own _malloc calls and the result buffers of the base64 procedures.
Grants(i, a) ==
    {j \in 1..(i - 1) :
        /\ trace[j].r = a
        /\ \/ trace[j].k = "_malloc"
           \/ trace[j].k = "call" /\ trace[j].f \in {"base64_encode", "base64_decode"}}

\* The size of the buffer a grant hands over: the size asked of _malloc;
\* the text and its terminator for base64_encode; in_len for base64_decode.
GrantSize(j) ==
    IF trace[j].k = "_malloc" THEN trace[j].n
    ELSE IF trace[j].f = "base64_encode" THEN trace[j].o + 1
    ELSE trace[j].n

\* The size of the buffer the invocation owns at the address of event i when
\* the event happens: -1 if it owns none there (never granted, or freed).
OwnedSize(i) ==
    LET a == trace[i].a
        G == Grants(i, a)
        g == CHOOSE j \in G : \A h \in G : h <= j
    IN  IF a = 0 \/ G = {} THEN -1
        ELSE IF \E f \in g..(i - 1) : trace[f].k = "_free" /\ trace[f].a = a THEN -1
        ELSE GrantSize(g)

\* C14: every host write into and host read out of foreign memory covers
\* only bytes inside a buffer the operation owns at that moment: no more
\* bytes than the buffer's size, the terminator of copied text included.
C14_AccessesInBounds ==
    pc = "done" =>
        \A i \in Events("write") \cup Events("read") :
            trace[i].n > 0 => trace[i].n <= OwnedSize(i)

\* ------------------------------------------------------ the AES glue

\* EVP_CIPHER_CTX_new(): a cipher context on the foreign heap, or NULL.
EVP_CIPHER_CTX_new(c, fail) ==
    LET d == Allocate(c, 0, fail)
    IN  [d EXCEPT !.trace = Append(@, Ev("ctx_new", "", 0, 0, d.ret, 0))]

\* EVP_CIPHER_CTX_free(ctx): nothing for NULL; the event is recorded whether
\* or not the context is still live.
EVP_CIPHER_CTX_free(c, ctx) ==
    IF ctx = 0 THEN c
    ELSE [c EXCEPT !.heap = Release(@, ctx),
                   !.trace = Append(@, Ev("ctx_free", "", ctx, 0, 0, 0))]

\* The key lengths of the switch in aes_encrypt_init / aes_decrypt_init.
AES_KEY_LENGTHS == {16, 24, 32}

\* EVP_EncryptInit_ex / EVP_DecryptInit_ex on ctx with the cipher of key_len.
EvpInit(c, ctx, key_len, ok) ==
    [c EXCEPT !.trace = Append(@, Ev("evp", "EVP_CipherInit_ex", ctx, key_len,
                                     IF ok THEN 1 ELSE 0, 0))]

\* Mutant: init without the default: branch of the switch.
CipherInitAnyLength(c, name, key_len, fail, initOk) ==
    LET d == EVP_CIPHER_CTX_new(c, fail)
        ctx == d.ret
        i == EvpInit(d, ctx, key_len, initOk)
        e == IF ctx = 0 THEN d
             ELSE IF ~initOk THEN [EVP_CIPHER_CTX_free(i, ctx) EXCEPT !.ret = 0]
             ELSE [i EXCEPT !.ret = ctx]
    IN  [e EXCEPT !.trace = Append(@, Ev("call", name, 0, key_len, e.ret, 0))]

\* aes_{encrypt,decrypt}_init: a new context; NULL, with the context freed,
\* on `default:` and when EVP_*Init_ex does not return 1 (initOk false).
CipherInit(c, name, key_len, fail, initOk) ==
    LET d == EVP_CIPHER_CTX_new(c, fail)
        ctx == d.ret
        i == EvpInit(d, ctx, key_len, initOk)
        e == IF ctx = 0 THEN d
             ELSE IF key_len \notin AES_KEY_LENGTHS THEN
                 [EVP_CIPHER_CTX_free(d, ctx) EXCEPT !.ret = 0]
             ELSE IF ~initOk THEN [EVP_CIPHER_CTX_free(i, ctx) EXCEPT !.ret = 0]
             ELSE [i EXCEPT !.ret = ctx]
    IN  [e EXCEPT !.trace = Append(@, Ev("call", name, 0, key_len, e.ret, 0))]

\* aes_{encrypt,decrypt}_update: the status of EVP_*Update; the context
\* stays as it is.
CipherUpdate(c, name, ctx, in_len, status) ==
    [c EXCEPT !.ret = status,
              !.trace = Append(@, Ev("call", name, ctx, in_len, status, 0))]

\* A final that keeps the context when EVP_*Final_ex fails.
CipherFinalKeepOnFailure(c, name, ctx, status) ==
    LET d == IF status = 1 THEN EVP_CIPHER_CTX_free(c, ctx) ELSE c
    IN  [d EXCEPT !.ret = status,
                  !.trace = Append(@, Ev("call", name, ctx, 0, status, 0))]

\* aes_{encrypt,decrypt}_final: EVP_*Final_ex, then EVP_CIPHER_CTX_free(ctx)
\* whatever the status, which is returned.
CipherFinal(c, name, ctx, status) ==
    LET d == EVP_CIPHER_CTX_free(c, ctx)
    IN  [d EXCEPT !.ret = status,
                  !.trace = Append(@, Ev("call", name, ctx, 0, status, 0))]

aes_encrypt_init(c, key_len, fail, initOk) ==
    CipherInit(c, "aes_encrypt_init", key_len, fail, initOk)

aes_encrypt_update(c, ctx, in_len, status) ==
    CipherUpdate(c, "aes_encrypt_update", ctx, in_len, status)

aes_encrypt_final(c, ctx, status) == CipherFinal(c, "aes_encrypt_final", ctx, status)

aes_decrypt_init(c, key_len, fail, initOk) ==
    CipherInit(c, "aes_decrypt_init", key_len, fail, initOk)

aes_decrypt_update(c, ctx, in_len, status) ==
    CipherUpdate(c, "aes_decrypt_update", ctx, in_len, status)

aes_decrypt_final(c, ctx, status) == CipherFinal(c, "aes_decrypt_final", ctx, status)

\* evp_cipher_ctx_free(ctx)
evp_cipher_ctx_free(c, ctx) ==
    LET d == EVP_CIPHER_CTX_free(c, ctx)
    IN  [d EXCEPT !.trace = Append(@, Ev("call", "evp_cipher_ctx_free", ctx, 0, 0, 0))]

\* -------------------------------------------- a host driving the AES glue

\* The class declares no AES method; a host that holds the instance drives
\* the three procedures itself: init, then update, then final, both phases
\* run, the failure of either reported when final has returned.

AesDirections == {"encrypt", "decrypt"}

\* Key lengths a caller may pass: the three of the switch and others.
KeyLengths == {0, 15, 16, 24, 32, 33}

AesRequest(dir, key_len) == [t |-> dir, v |-> <<key_len>>]

\* The foreign steps of one phase, appended to the run so far.
Continue(c) == [c EXCEPT !.heap = heap, !.trace = trace]

InitAes ==
    /\ pc = "idle"
    /\ heap \in {EmptyHeap, {1}}
    /\ trace = <<>>
    /\ outcome = NoOutcome
    /\ initialized = TRUE
    /\ handle = FullHandle
    /\ tasks = [c \in Callers |-> IdleTask]
    /\ running = 0
    /\ log = <<>>

AesInit ==
    /\ pc = "idle"
    /\ \E dir \in AesDirections, key_len \in KeyLengths, fail, initOk \in BOOLEAN :
         LET c == Continue(Enter(heap, OkEnv))
             d == IF dir = "encrypt" THEN aes_encrypt_init(c, key_len, fail, initOk)
                  ELSE aes_decrypt_init(c, key_len, fail, initOk)
         IN  /\ heap' = d.heap
             /\ trace' = d.trace
             /\ IF d.ret = 0
                THEN /\ pc' = "done"
                     /\ outcome' = Outcome("aes", AesRequest(dir, key_len),
                                           Throw(<<"init failed">>))
                ELSE /\ pc' = "update"
                     /\ outcome' = Outcome("aes", AesRequest(dir, key_len),
                                           Return(Bytes(<<d.ret>>)))
    /\ UNCHANGED <<initialized, loopVars>>

\* The context the running request got from init.
Ctx == outcome.value.v[1]

AesUpdate ==
    /\ pc = "update"
    /\ \E in_len \in Lengths, status \in {1, 0} :
         LET c == Continue(Enter(heap, OkEnv))
             d == IF outcome.arg.t = "encrypt"
                  THEN aes_encrypt_update(c, Ctx, in_len, status)
                  ELSE aes_decrypt_update(c, Ctx, in_len, status)
         IN  /\ heap' = d.heap
             /\ trace' = d.trace
    /\ pc' = "final"
    /\ UNCHANGED <<outcome, initialized, loopVars>>

AesFinal ==
    /\ pc = "final"
    /\ \E status \in {1, 0} :
         LET c == Continue(Enter(heap, OkEnv))
             d == IF outcome.arg.t = "encrypt"
                  THEN aes_encrypt_final(c, Ctx, status)
                  ELSE aes_decrypt_final(c, Ctx, status)
             ok == \A i \in 1..Len(d.trace) : d.trace[i].k = "call" => d.trace[i].r # 0
         IN  /\ heap' = d.heap
             /\ trace' = d.trace
             /\ outcome' = Outcome("aes", outcome.arg,
                                   IF ok THEN Return(Bytes(<<>>))
                                   ELSE Throw(<<"cipher failed">>))
    /\ pc' = "done"
    /\ UNCHANGED <<initialized, loopVars>>

NextAes ==
    \/ AesInit
    \/ AesUpdate
    \/ AesFinal
    \/ Complete

SpecAes == InitAes /\ [][NextAes]_vars

\* The contexts the request created, and how often each was released.
CreatedCtx == {trace[i].r : i \in Events("ctx_new")} \ {0}

ReleaseCount(ctx) == Cardinality({i \in Events("ctx_free") : trace[i].a = ctx})

PhaseFailed(suffix) ==
    \E i \in Events("call") :
        /\ trace[i].f \in {"aes_encrypt_" \o suffix, "aes_decrypt_" \o suffix}
        /\ trace[i].r = 0

\* C15: when an AES request driven through init, update and final is over,
\* every cipher context init created has been released exactly once,
\* whichever phase failed, and none is live.
C15_CtxReleasedOnce ==
    (pc = "done" /\ outcome.op = "aes") =>
        \A ctx \in CreatedCtx : ReleaseCount(ctx) = 1 /\ ctx \notin heap

\* update failed, final failed too, and the request is over.
C15_Witness ==
    /\ pc = "done"
    /\ outcome.op = "aes"
    /\ PhaseFailed("update")
    /\ PhaseFailed("final")
    /\ CreatedCtx # {}
    /\ \A ctx \in CreatedCtx : ReleaseCount(ctx) = 1

\* C16: an AES request whose key length is not 16, 24 or 32 is over
\* without any foreign allocation and without any foreign procedure call.
C16_KeyLengthBeforeBoundary ==
    (pc = "done" /\ outcome.op = "aes" /\ outcome.arg.v[1] \notin AES_KEY_LENGTHS) =>
        /\ outcome.kind = "throw"
        /\ trace = <<>>

\* C17: fromHex of a string of odd length throws at once: it returns no
\* byte array, and no foreign allocation, release or call is made.
C17_OddHexRejected ==
    (pc = "done" /\ outcome.op = "fromHex" /\ Len(outcome.arg.v) % 2 = 1) =>
        /\ outcome.kind = "throw"
        /\ outcome.value = NoValue
        /\ trace = <<>>

C17_Witness ==
    /\ pc = "done"
    /\ outcome.op = "fromHex"
    /\ outcome.arg = Text(<<97>>)
    /\ outcome.kind = "throw"
    /\ outcome.msg = <<"Hex string must have an even number of characters">>
    /\ trace = <<>>

HexOps == {"toHex", "fromHex"}

\* C18: toHex and fromHex, on every input, make no _malloc, no _free and
\* no foreign call, and leave the foreign heap and the handle as they were.
C18_HexPure ==
    [][(pc = "idle" /\ outcome'.op \in HexOps) =>
           /\ trace' = <<>>
           /\ heap' = heap
           /\ initialized' = initialized
           /\ handle' = handle]_vars

\* toHex has run on a heap that holds a block an earlier call left behind.
C18_Witness ==
    /\ pc = "done"
    /\ outcome.op = "toHex"
    /\ outcome.arg = Bytes(<<10, 255>>)
    /\ outcome.kind = "return"
    /\ heap # EmptyHeap
    /\ trace = <<>>

\* The operations that take bytes or text, applied by name.
Apply(op, h, data, env) ==
    CASE op = "sha1" -> sha1(h, data, env)
      [] op = "sha256" -> sha256(h, data, env)
      [] op = "sha384" -> sha384(h, data, env)
      [] op = "sha512" -> sha512(h, data, env)
      [] op = "md5" -> md5(h, data, env)
      [] op = "base64Encode" -> base64Encode(h, data, env)

TextOps == DigestOps \cup {"base64Encode"}

\* C19: a digest or base64Encode called with a text makes the foreign calls,
\* with the arguments, and gives the result, that the same operation makes
\* and gives when called with the UTF-8 bytes of that text.
C19_TextAsUtf8 ==
    [][(pc = "idle" /\ outcome'.op \in TextOps /\ outcome'.arg.t = "text") =>
           \E env \in DigestEnvs \cup EncodeEnvs :
               LET r == Apply(outcome'.op, heap, Bytes(TextEncode(outcome'.arg.v)), env)
               IN  /\ trace' = r.trace
                   /\ heap' = r.heap
                   /\ outcome' = Outcome(outcome'.op, outcome'.arg, r.out)]_vars

\* sha256 of a one-character text whose UTF-8 form has two bytes.
C19_Witness ==
    /\ pc = "done"
    /\ outcome.op = "sha256"
    /\ outcome.arg = Text(<<233>>)
    /\ outcome.kind = "return"
    /\ \E i \in Events("write") : trace[i].n = 2
    /\ outcome.value = sha256(EmptyHeap, Bytes(<<195, 169>>), OkEnv).out.value

\* ------------------------------------------------- scripts/setup.js

\* A command handed to execSync and whether it succeeded (r = 1) or threw.
Command(t, command, ok) == Append(t, Ev("exec", command, 0, 0, IF ok THEN 1 ELSE 0, 0))

\* exec(command): runs it; rethrows when it fails.
exec(t, command, ok) == [trace |-> Command(t, command, ok), threw |-> ~ok]

\* checkCommand(command): true when it runs, false when it throws.
checkCommand(t, command, ok) == [trace |-> Command(t, command, ok), ret |-> ok]

\* The commands of the six required dependencies.
Dependencies ==
    <<"node --version", "npm --version", "cmake --version", "python3 --version",
      "git --version", "curl --version">>

RECURSIVE CheckEach(_, _, _, _)
CheckEach(t, commands, ok, i) ==
    IF i > Len(commands) THEN t
    ELSE CheckEach(checkCommand(t, commands[i], ok[i]).trace, commands, ok, i + 1)

\* checkSystemDependencies(): every command is tried; false when one is missing.
checkSystemDependencies(t, available) ==
    [trace |-> CheckEach(t, Dependencies, available, 1),
     ret |-> \A i \in 1..Len(Dependencies) : available[i]]

EMSDK_INSTALL == "./emsdk install latest"

EMSDK_ACTIVATE == "./emsdk activate latest"

EMSDK_SOURCE == "bash -c source emsdk_env.sh"

\* What setupEmsdk meets: the emsdk directory, the two emsdk commands, the
\* environment script and its sourcing.
EmsdkWorlds ==
    [dir : BOOLEAN, install : BOOLEAN, activate : BOOLEAN, script : BOOLEAN,
     source : BOOLEAN]

\* Mutant: setupEmsdk going on to activate when install has failed.
setupEmsdkActivateAnyway(t, w) ==
    IF ~w.dir THEN [trace |-> t, ret |-> FALSE]
    ELSE LET i == exec(t, EMSDK_INSTALL, w.install)
             a == exec(i.trace, EMSDK_ACTIVATE, w.activate)
         IN  [trace |-> a.trace, ret |-> ~i.threw /\ ~a.threw]

\* setupEmsdk(): install, then activate, then the environment script; false
\* from the catch block of the first command that throws.
setupEmsdk(t, w) ==
    IF ~w.dir THEN [trace |-> t, ret |-> FALSE]
    ELSE LET i == exec(t, EMSDK_INSTALL, w.install)
         IN  IF i.threw THEN [trace |-> i.trace, ret |-> FALSE]
             ELSE LET a == exec(i.trace, EMSDK_ACTIVATE, w.activate)
                  IN  IF a.threw THEN [trace |-> a.trace, ret |-> FALSE]
                      ELSE IF w.script
                      THEN [trace |-> exec(a.trace, EMSDK_SOURCE, w.source).trace,
                            ret |-> TRUE]
                      ELSE [trace |-> a.trace, ret |-> TRUE]

\* installNpmDependencies(): false without package.json; npm install is not
\* in a try block, its failure goes up to main.
installNpmDependencies(t, package, ok) ==
    IF ~package THEN [trace |-> t, ret |-> FALSE, threw |-> FALSE]
    ELSE LET n == exec(t, "npm install", ok)
         IN  [trace |-> n.trace, ret |-> ok, threw |-> n.threw]

Verifications ==
    <<"node --version", "npm --version", "cmake --version", "python3 --version",
      "emcc --version">>

\* verifySetup(): every command is tried; allPassed is returned.
verifySetup(t, passed) ==
    [trace |-> CheckEach(t, Verifications, passed, 1),
     ret |-> \A i \in 1..Len(Verifications) : passed[i]]

\* process.exit(code); the arguments the script was started with are kept.
ExitCode(code) ==
    [outcome EXCEPT !.op = "setup", !.kind = "exit", !.value = [t |-> "code", v |-> <<code>>]]

\* process.argv after the script's name: nothing, or the documented --verify.
Argv(args) == [t |-> "argv", v |-> args]

Argvs == {Argv(<<>>), Argv(<<"--verify">>)}

InitSetup ==
    /\ pc = "main"
    /\ heap = EmptyHeap
    /\ trace = <<>>
    /\ outcome \in {[NoOutcome EXCEPT !.arg = a] : a \in Argvs}
    /\ initialized = FALSE
    /\ handle = NoHandle
    /\ tasks = [c \in Callers |-> IdleTask]
    /\ running = 0
    /\ log = <<>>

\* One statement of main: on to the next one, or process.exit(code).
MainStep(t, next, exit, code) ==
    /\ trace' = t
    /\ pc' = IF exit THEN "exited" ELSE next
    /\ outcome' = IF exit THEN ExitCode(code) ELSE outcome
    /\ UNCHANGED <<heap, initialized, loopVars>>

\* process.chdir(ROOT_DIR); if (!checkSystemDependencies()) process.exit(1)
MainCheckSystemDependencies ==
    /\ pc = "main"
    /\ \E chdir \in BOOLEAN, available \in [1..Len(Dependencies) -> BOOLEAN] :
         IF ~chdir THEN MainStep(trace, "", TRUE, 1)
         ELSE LET r == checkSystemDependencies(trace, available)
              IN  MainStep(r.trace, "setupEmsdk", ~r.ret, 1)

\* if (!setupEmsdk()) process.exit(1)
MainSetupEmsdk ==
    /\ pc = "setupEmsdk"
    /\ \E w \in EmsdkWorlds :
         LET r == setupEmsdk(trace, w)
         IN  MainStep(r.trace, "installNpmDependencies", ~r.ret, 1)

\* if (!installNpmDependencies()) process.exit(1), or main's catch block
MainInstallNpmDependencies ==
    /\ pc = "installNpmDependencies"
    /\ \E package, ok \in BOOLEAN :
         LET r == installNpmDependencies(trace, package, ok)
         IN  MainStep(r.trace, "verifySetup", r.threw \/ ~r.ret, 1)

\* showNextSteps(): prints; nothing is executed.
showNextSteps(t) == Append(t, Ev("print", "showNextSteps", 0, 0, 0, 0))

\* Mutant: main exiting with 1 when verifySetup returns false.
MainVerifySetupChecked ==
    /\ pc = "verifySetup"
    /\ \E passed \in [1..Len(Verifications) -> BOOLEAN] :
         LET r == verifySetup(trace, passed)
         IN  IF r.ret THEN MainStep(showNextSteps(r.trace), "", TRUE, 0)
             ELSE MainStep(r.trace, "", TRUE, 1)

\* verifySetup(); showNextSteps(); process.exit(0)
MainVerifySetup ==
    /\ pc = "verifySetup"
    /\ \E passed \in [1..Len(Verifications) -> BOOLEAN] :
         MainStep(showNextSteps(verifySetup(trace, passed).trace), "", TRUE, 0)

NextSetup ==
    \/ MainCheckSystemDependencies
    \/ MainSetupEmsdk
    \/ MainInstallNpmDependencies
    \/ MainVerifySetup

SpecSetup == InitSetup /\ [][NextSetup]_vars

\* The positions in the run at which a command was executed.
Executed(command) == {i \in Events("exec") : trace[i].f = command}

\* C20: in a run of the setup script, './emsdk activate latest' is
\* executed only after './emsdk install latest' has succeeded; when install
\* has failed, activate is not executed and the script exits with code 1.
C20_ActivateAfterInstall ==
    /\ \A i \in Executed(EMSDK_ACTIVATE) :
           \E j \in Executed(EMSDK_INSTALL) : j < i /\ trace[j].r = 1
    /\ (\E j \in Executed(EMSDK_INSTALL) : trace[j].r = 0) =>
           /\ Executed(EMSDK_ACTIVATE) = {}
           /\ pc = "exited"
           /\ outcome = ExitCode(1)

\* install has been executed and failed, and the script has exited.
C20_Witness ==
    /\ pc = "exited"
    /\ \E j \in Executed(EMSDK_INSTALL) : trace[j].r = 0 /\ j = Len(trace)
    /\ Len(trace) = Len(Dependencies) + 1
    /\ outcome = ExitCode(1)

\* C21: a run of the setup script started with --verify only verifies: it
\* does not install emsdk tools, activate emsdk or run npm install.
C21_VerifyOnly ==
    "--verify" \in {outcome.arg.v[i] : i \in 1..Len(outcome.arg.v)} =>
        /\ Executed(EMSDK_INSTALL) = {}
        /\ Executed(EMSDK_ACTIVATE) = {}
        /\ Executed("npm install") = {}

\* The commands of the run that failed, the sourcing of the environment
\* script apart (setupEmsdk catches that failure and goes on).
FailedCommands == {i \in Events("exec") : trace[i].r = 0 /\ trace[i].f # EMSDK_SOURCE}

\* The positions at which verifySetup's last command (emcc --version) ran.
Verified == Executed("emcc --version")

\* C30: the exit code of the setup script does not depend on the
\* verification step: the script exits with 0, after showNextSteps, exactly
\* when the dependency check, the emsdk setup and npm install succeeded
\* (then verifySetup has run, whatever it found), and with 1 otherwise.
C30_ExitIgnoresVerify ==
    pc = "exited" =>
        /\ outcome \in {ExitCode(0), ExitCode(1)}
        /\ outcome = ExitCode(0) <=> Verified # {}
        /\ Verified # {} =>
               /\ trace[Len(trace)].f = "showNextSteps"
               /\ \A i \in FailedCommands : \E j \in Executed("npm install") : j < i
               /\ Executed(EMSDK_INSTALL) # {} /\ Executed(EMSDK_ACTIVATE) # {}
        /\ Verified = {} =>
               \/ FailedCommands # {}
               \/ Executed("npm install") = {}

\* The script has exited with 0 although emcc --version failed.
C30_Witness ==
    /\ pc = "exited"
    /\ outcome = ExitCode(0)
    /\ \E i \in Verified : trace[i].r = 0
    /\ trace[Len(trace)].f = "showNextSteps"

\* --------------------------------------------- scripts/build-wasm.js

\* The most patch files src/patches holds.
MaxPatches == 2

\* exec(command) of the build script: process.exit(1) when the command fails.
buildExecKeepGoing(t, command, ok) == [trace |-> Command(t, command, ok), exit |-> FALSE]

buildExec(t, command, ok) == [trace |-> Command(t, command, ok), exit |-> ~ok]

\* fs.existsSync(path), as the script sees it.
ExistsSync(t, path, present) ==
    Append(t, Ev("stat", path, 0, 0, IF present THEN 1 ELSE 0, 0))

EMCC_VERSION == "emcc --version"

CURL_TAR == "curl -L OPENSSL_URL | tar xz -C BUILD_DIR"

PATCH == "patch -p1 < patch"

CONFIGURE == "./Configure"

MAKE == "make build_libs"

CP_LIBCRYPTO == "cp libcrypto.a"

CP_LIBSSL == "cp libssl.a"

EMCC_LINK == "emcc -Oz -o openssl-wasm.js"

\* The end of the process: process.exit(1), an uncaught exception (exit code
\* 1 as well) or the end of the script (0).
BuildExit(code) ==
    [outcome EXCEPT !.op = "build", !.kind = "exit", !.value = [t |-> "code", v |-> <<code>>]]

InitBuild ==
    /\ pc = "build"
    /\ heap = EmptyHeap
    /\ trace = <<>>
    /\ outcome = NoOutcome
    /\ initialized = FALSE
    /\ handle = NoHandle
    /\ tasks = [c \in Callers |-> IdleTask]
    /\ running = 0
    /\ log = <<>>

\* The script goes on to its next statement, or the process ends.
BuildStep(t, next, exit, code) ==
    /\ trace' = t
    /\ pc' = IF exit THEN "exited" ELSE next
    /\ outcome' = IF exit THEN BuildExit(code) ELSE outcome
    /\ UNCHANGED <<heap, initialized, loopVars>>

\* mkdirSync of the build and dist directories, then the emcc check.
BuildCheckEmscripten ==
    /\ pc = "build"
    /\ \E build, dist, mkdir, ok \in BOOLEAN :
         LET t == ExistsSync(ExistsSync(trace, "BUILD_DIR", build), "DIST_DIR", dist)
         IN  IF ~(build /\ dist) /\ ~mkdir THEN BuildStep(t, "", TRUE, 1)
             ELSE BuildStep(Command(t, EMCC_VERSION, ok), "download", ~ok, 1)

\* if (!fs.existsSync(OPENSSL_DIR)) exec(curl | tar)
BuildDownload ==
    /\ pc = "download"
    /\ \E present, ok \in BOOLEAN :
         LET t == ExistsSync(trace, "OPENSSL_DIR", present)
             r == buildExec(t, CURL_TAR, ok)
         IN  IF present THEN BuildStep(t, "patch", FALSE, 0)
             ELSE BuildStep(r.trace, "patch", r.exit, 1)

\* The patches from number i on, one exec each, until one ends the process.
RECURSIVE ApplyPatches(_, _, _)
ApplyPatches(t, oks, i) ==
    IF i > Len(oks) THEN [trace |-> t, exit |-> FALSE]
    ELSE LET r == buildExec(t, PATCH, oks[i])
         IN  IF r.exit THEN r ELSE ApplyPatches(r.trace, oks, i + 1)

\* if (fs.existsSync(PATCHES_DIR)) for (const patch of patches) exec(patch)
BuildPatch ==
    /\ pc = "patch"
    /\ \E present \in BOOLEAN, n \in 0..MaxPatches :
         \E oks \in [1..n -> BOOLEAN] :
             LET t == ExistsSync(trace, "PATCHES_DIR", present)
                 r == ApplyPatches(t, oks, 1)
             IN  IF present THEN BuildStep(r.trace, "configure", r.exit, 1)
                 ELSE BuildStep(t, "configure", FALSE, 0)

\* exec(./Configure)
BuildConfigure ==
    /\ pc = "configure"
    /\ \E ok \in BOOLEAN :
         LET r == buildExec(trace, CONFIGURE, ok)
         IN  BuildStep(r.trace, "make", r.exit, 1)

\* exec(make)
BuildMake ==
    /\ pc = "make"
    /\ \E ok \in BOOLEAN :
         LET r == buildExec(trace, MAKE, ok)
         IN  BuildStep(r.trace, "copy", r.exit, 1)

\* mkdirSync(EMSCRIPTEN_OUTPUT), then the two cp commands
BuildCopy ==
    /\ pc = "copy"
    /\ \E mkdir, ok1, ok2 \in BOOLEAN :
         LET c == buildExec(trace, CP_LIBCRYPTO, ok1)
             s == buildExec(c.trace, CP_LIBSSL, ok2)
         IN  IF ~mkdir THEN BuildStep(trace, "", TRUE, 1)
             ELSE IF c.exit THEN BuildStep(c.trace, "", TRUE, 1)
             ELSE BuildStep(s.trace, "link", s.exit, 1)

\* exec(emcc ...), after which the script ends
BuildLink ==
    /\ pc = "link"
    /\ \E ok \in BOOLEAN :
         LET r == buildExec(trace, EMCC_LINK, ok)
         IN  BuildStep(r.trace, "", TRUE, IF r.exit THEN 1 ELSE 0)

NextBuild ==
    \/ BuildCheckEmscripten
    \/ BuildDownload
    \/ BuildPatch
    \/ BuildConfigure
    \/ BuildMake
    \/ BuildCopy
    \/ BuildLink

SpecBuild == InitBuild /\ [][NextBuild]_vars

\* The documented order of the build's commands.
BuildOrder ==
    <<EMCC_VERSION, CURL_TAR, PATCH, CONFIGURE, MAKE, CP_LIBCRYPTO, CP_LIBSSL, EMCC_LINK>>

Rank(command) == CHOOSE k \in 1..Len(BuildOrder) : BuildOrder[k] = command

\* The source directory was found present (1) or absent (0).
SourceDir(r) == \E i \in Events("stat") : trace[i].f = "OPENSSL_DIR" /\ trace[i].r = r

\* C22: the build executes its commands in the documented order, each step
\* after all the steps before it have succeeded, the download only when the
\* source directory is absent; a command that fails is the last one
\* executed and the process exits with code 1.
C22_BuildOrder ==
    /\ \A i, j \in Events("exec") :
           i < j => /\ Rank(trace[i].f) <= Rank(trace[j].f)
                    /\ Rank(trace[i].f) = Rank(trace[j].f) => trace[i].f = PATCH
    /\ \A k \in 5..Len(BuildOrder) :
           Executed(BuildOrder[k]) # {} => Executed(BuildOrder[k - 1]) # {}
    /\ Executed(CURL_TAR) # {} => SourceDir(0)
    /\ SourceDir(1) => Executed(CURL_TAR) = {}
    /\ Executed(CONFIGURE) # {} => (SourceDir(1) \/ Executed(CURL_TAR) # {})
    /\ \A i \in Events("exec") :
           trace[i].r = 0 => /\ \A j \in Events("exec") : j <= i
                             /\ pc = "exited"
                             /\ outcome = BuildExit(1)
    /\ (pc = "exited" /\ outcome = BuildExit(0)) =>
           \E i \in Executed(EMCC_LINK) : trace[i].r = 1

\* make has failed after a download, a patch and configure: the process
\* has exited with 1 and nothing was copied or linked.
C22_Witness ==
    /\ pc = "exited"
    /\ outcome = BuildExit(1)
    /\ \E i \in Executed(MAKE) : trace[i].r = 0 /\ i = Len(trace)
    /\ Executed(CURL_TAR) # {}
    /\ Executed(PATCH) # {}
    /\ Executed(CP_LIBCRYPTO) = {}
    /\ Executed(EMCC_LINK) = {}

\* The calls of the run to one bound procedure.
CallsOf(f) == {i \in Events("call") : trace[i].f = f}

\* C23: when base64Decode succeeds, the byte array it returns has exactly
\* the length base64_decode left in the 4-byte side buffer, and that length
\* is read from the side buffer after the call and before the side buffer
\* or the result buffer is freed.
C23_DecodedLength ==
    (pc = "done" /\ outcome.op = "base64Decode" /\ outcome.kind = "return") =>
        \E i \in CallsOf("base64_decode") :
            /\ trace[i].r # 0
            /\ Len(outcome.value.v) = trace[i].o
            /\ \E j \in Events("read") :
                   /\ i < j
                   /\ trace[j].n = OUT_LEN_SIZE
                   /\ trace[j].a = trace[2].r
                   /\ \A k \in Events("_free") :
                          trace[k].a \in {trace[2].r, trace[i].r} => j < k

\* "/w==" (4 characters) decoded to one byte: the length comes from the
\* side buffer, not from the input.
C23_Witness ==
    /\ pc = "done"
    /\ outcome.op = "base64Decode"
    /\ outcome.arg = Text(<<47, 119, 61, 61>>)
    /\ outcome.kind = "return"
    /\ outcome.value = Bytes(<<255>>)
    /\ \E i \in CallsOf("base64_decode") : trace[i].n = 4 /\ trace[i].o = 1
    /\ \E k \in Events("_free") : trace[k].a = trace[2].r /\ trace[2].r # 0

\* C24: over any sequence of cleanup() calls on one handle openssl_cleanup
\* is invoked at most once: a cleanup() on an initialized handle invokes
\* it once and clears the flag, a cleanup() on a handle whose flag is clear
\* makes no foreign call and changes nothing, and the flag, once clear,
\* stays clear.
C24_CleanupOnce ==
    [][/\ (pc = "idle" /\ outcome'.op = "cleanup" /\ initialized) =>
              /\ Len(trace') = 1
              /\ trace'[1].k = "call" /\ trace'[1].f = "openssl_cleanup"
              /\ ~initialized'
       /\ (pc = "idle" /\ outcome'.op = "cleanup" /\ ~initialized) =>
              /\ trace' = <<>>
              /\ heap' = heap
              /\ initialized' = initialized
              /\ handle' = handle
       /\ ~initialized => ~initialized']_vars

\* A cleanup() that found the flag clear: it made no call.
C24_Witness ==
    /\ pc = "done"
    /\ outcome.op = "cleanup"
    /\ outcome.kind = "return"
    /\ ~initialized
    /\ trace = <<>>

\* The bound procedure a method exists to invoke, and the buffers it takes.
ProcedureOf(op) ==
    CASE op = "randomBytes" -> "random_bytes"
      [] op = "base64Encode" -> "base64_encode"
      [] op = "base64Decode" -> "base64_decode"
      [] op = "version" -> "openssl_version"
      [] OTHER -> op

BuffersOf(op) ==
    CASE op = "version" -> 0
      [] op = "randomBytes" -> 1
      [] OTHER -> 2

\* C25: only cleanup() looks at the initialized flag: on a handle whose flag
\* cleanup() has cleared, randomBytes, the digests, base64Encode,
\* base64Decode and version still make their allocations and invoke their
\* foreign procedure, and leave the flag and the bindings as they are.
C25_FlagOnlyInCleanup ==
    [][(pc = "idle" /\ ~initialized /\ outcome'.op \in FfiOps \cup {"version"}) =>
           /\ initialized' = initialized
           /\ handle' = handle
           /\ Cardinality({i \in 1..Len(trace') : trace'[i].k = "_malloc"})
                  = BuffersOf(outcome'.op)
           /\ Cardinality({i \in 1..Len(trace') :
                  trace'[i].k = "call" /\ trace'[i].f = ProcedureOf(outcome'.op)}) = 1]_vars

\* randomBytes returned bytes on a handle that had been cleaned up.
C25_Witness ==
    /\ pc = "done"
    /\ ~initialized
    /\ outcome.op = "randomBytes"
    /\ outcome.kind = "return"
    /\ Len(outcome.value.v) = 1
    /\ CallsOf("random_bytes") # {}

\* C26: no public operation reads a foreign buffer after it has freed it:
\* every _free of an address the operation reads from comes after the read,
\* unless the address was handed out again in between.
C26_NoReadAfterFree ==
    pc = "done" =>
        \A i \in Events("read") : \A j \in Events("_free") :
            (j < i /\ trace[j].a = trace[i].a /\ trace[i].a # 0) =>
                \E g \in Grants(i, trace[i].a) : j < g

\* base64Encode converted its result text and freed the result buffer,
\* the data buffer and the side buffer afterwards.
C26_Witness ==
    /\ pc = "done"
    /\ outcome.op = "base64Encode"
    /\ outcome.kind = "return"
    /\ \E c \in CallsOf("base64_encode") : \E i \in Events("read") : \E j \in Events("_free") :
           /\ trace[c].r # 0
           /\ trace[i].a = trace[c].r
           /\ trace[j].a = trace[c].r
           /\ c < i /\ i < j

\* The init calls of the run.
InitCalls == CallsOf("aes_encrypt_init") \cup CallsOf("aes_decrypt_init")

\* The EVP init calls of the run.
EvpInits == {i \in Events("evp") : trace[i].f = "EVP_CipherInit_ex"}

\* C28: aes_encrypt_init and aes_decrypt_init return a context only when
\* key_len is 16, 24 or 32 and the EVP init call returned 1; otherwise they
\* return NULL, having freed exactly once the context they created; for a
\* key_len outside that set the EVP init call is not made.
C28_InitContract ==
    \A c \in InitCalls : Len(trace) = c =>
        /\ trace[c].r # 0 =>
               /\ trace[c].n \in AES_KEY_LENGTHS
               /\ \E i \in EvpInits : trace[i].r = 1 /\ trace[i].a = trace[c].r
               /\ ReleaseCount(trace[c].r) = 0
               /\ trace[c].r \in heap
        /\ trace[c].r = 0 =>
               /\ \A ctx \in CreatedCtx : ReleaseCount(ctx) = 1 /\ ctx \notin heap
               /\ trace[c].n \in AES_KEY_LENGTHS =>
                      (CreatedCtx = {} \/ \E i \in EvpInits : trace[i].r = 0)
        /\ trace[c].n \notin AES_KEY_LENGTHS => EvpInits = {}

\* init was given a 15-byte key: it made a context, freed it and returned
\* NULL without calling EVP init.
C28_Witness ==
    /\ pc = "done"
    /\ \E c \in InitCalls : trace[c].n = 15 /\ trace[c].r = 0 /\ Len(trace) = c
    /\ \E ctx \in CreatedCtx : ReleaseCount(ctx) = 1
    /\ EvpInits = {}

\* --------------------------------------- the digest and RSA key glue

\* An object of the library made on the foreign heap (EVP_MD_CTX_new,
\* BN_new, RSA_new): its address, or NULL.
New(c, type, fail) ==
    LET d == Allocate(c, 0, fail)
    IN  [d EXCEPT !.trace = Append(@, Ev("new", type, 0, 0, d.ret, 0))]

\* The matching release (EVP_MD_CTX_free, BN_free, RSA_free).
Delete(c, type, p) ==
    [c EXCEPT !.heap = Release(@, p),
              !.trace = Append(@, Ev("delete", type, p, 0, 0, 0))]

\* A call into the library on an object, with the status it returns.
LibCall(c, f, p, ok) ==
    [c EXCEPT !.ret = IF ok THEN 1 ELSE 0,
              !.trace = Append(@, Ev("lib", f, p, 0, IF ok THEN 1 ELSE 0, 0))]

\* What the library does to one glue call: whether the object can be made
\* and the status of each of three steps.
LibWorlds == [new : BOOLEAN, s1 : BOOLEAN, s2 : BOOLEAN, s3 : BOOLEAN]

DigestProcedures ==
    {"sha1_digest", "sha256_digest", "sha384_digest", "sha512_digest", "md5_digest"}

\* Mutant: the failure branch returning without EVP_MD_CTX_free.
EvpDigestLeakOnFailure(c, name, w) ==
    LET n == New(c, "EVP_MD_CTX", ~w.new)
        mdctx == n.ret
        i == LibCall(n, "EVP_DigestInit_ex", mdctx, w.s1)
        u == IF w.s1 THEN LibCall(i, "EVP_DigestUpdate", mdctx, w.s2) ELSE i
        f == IF w.s1 /\ w.s2 THEN LibCall(u, "EVP_DigestFinal_ex", mdctx, w.s3) ELSE u
        r == IF mdctx = 0 THEN [n EXCEPT !.ret = 0]
             ELSE IF ~(w.s1 /\ w.s2 /\ w.s3) THEN [f EXCEPT !.ret = 0]
             ELSE [Delete(f, "EVP_MD_CTX", mdctx) EXCEPT !.ret = 1]
    IN  [r EXCEPT !.trace = Append(@, Ev("call", name, 0, 0, r.ret, 0))]

\* <alg>_digest(data, data_len, md): the five procedures have one body.  The
\* || chain stops at the first step that does not return 1.
EvpDigest(c, name, w) ==
    LET n == New(c, "EVP_MD_CTX", ~w.new)
        mdctx == n.ret
        i == LibCall(n, "EVP_DigestInit_ex", mdctx, w.s1)
        u == IF w.s1 THEN LibCall(i, "EVP_DigestUpdate", mdctx, w.s2) ELSE i
        f == IF w.s1 /\ w.s2 THEN LibCall(u, "EVP_DigestFinal_ex", mdctx, w.s3) ELSE u
        r == IF mdctx = 0 THEN [n EXCEPT !.ret = 0]
             ELSE IF ~(w.s1 /\ w.s2 /\ w.s3)
             THEN [Delete(f, "EVP_MD_CTX", mdctx) EXCEPT !.ret = 0]
             ELSE [Delete(f, "EVP_MD_CTX", mdctx) EXCEPT !.ret = 1]
    IN  [r EXCEPT !.trace = Append(@, Ev("call", name, 0, 0, r.ret, 0))]

\* Mutant: RSA_generate_key_ex's failure branch without RSA_free.
rsa_generate_key_leak(c, bits, w, rsaOk) ==
    LET b == New(c, "BIGNUM", ~w.new)
        bn == b.ret
        s == LibCall(b, "BN_set_word", bn, w.s1)
        n == New(s, "RSA", ~rsaOk)
        rsa == n.ret
        g == LibCall(n, "RSA_generate_key_ex", rsa, w.s2)
        r == IF bn = 0 THEN [b EXCEPT !.ret = 0]
             ELSE IF ~w.s1 THEN [Delete(s, "BIGNUM", bn) EXCEPT !.ret = 0]
             ELSE IF rsa = 0 THEN [Delete(n, "BIGNUM", bn) EXCEPT !.ret = 0]
             ELSE IF ~w.s2 THEN [Delete(g, "BIGNUM", bn) EXCEPT !.ret = 0]
             ELSE [Delete(g, "BIGNUM", bn) EXCEPT !.ret = rsa]
    IN  [r EXCEPT !.trace = Append(@, Ev("call", "rsa_generate_key", 0, bits, r.ret, 0))]

\* RSA* rsa_generate_key(int bits)
rsa_generate_key(c, bits, w, rsaOk) ==
    LET b == New(c, "BIGNUM", ~w.new)
        bn == b.ret
        s == LibCall(b, "BN_set_word", bn, w.s1)
        n == New(s, "RSA", ~rsaOk)
        rsa == n.ret
        g == LibCall(n, "RSA_generate_key_ex", rsa, w.s2)
        r == IF bn = 0 THEN [b EXCEPT !.ret = 0]
             ELSE IF ~w.s1 THEN [Delete(s, "BIGNUM", bn) EXCEPT !.ret = 0]
             ELSE IF rsa = 0 THEN [Delete(n, "BIGNUM", bn) EXCEPT !.ret = 0]
             ELSE IF ~w.s2
             THEN [Delete(Delete(g, "RSA", rsa), "BIGNUM", bn) EXCEPT !.ret = 0]
             ELSE [Delete(g, "BIGNUM", bn) EXCEPT !.ret = rsa]
    IN  [r EXCEPT !.trace = Append(@, Ev("call", "rsa_generate_key", 0, bits, r.ret, 0))]

\* Key sizes asked for.
KeyBits == {1024, 2048}

\* A host calls one glue procedure; the result is its return value.
GlueDone(name, r) ==
    /\ pc' = "done"
    /\ heap' = r.heap
    /\ trace' = r.trace
    /\ outcome' = Outcome(name, NoValue, Return(Bytes(<<r.ret>>)))
    /\ UNCHANGED <<initialized, loopVars>>

CallDigest ==
    /\ pc = "idle"
    /\ \E name \in DigestProcedures, w \in LibWorlds :
           GlueDone(name, EvpDigest(Continue(Enter(heap, OkEnv)), name, w))

CallRsaGenerateKey ==
    /\ pc = "idle"
    /\ \E bits \in KeyBits, w \in LibWorlds, rsaOk \in BOOLEAN :
           GlueDone("rsa_generate_key",
                    rsa_generate_key(Continue(Enter(heap, OkEnv)), bits, w, rsaOk))

\* The host keeps the key it was given; this model never frees it.
NextGlue ==
    \/ CallDigest
    \/ CallRsaGenerateKey
    \/ Complete

SpecGlue == InitAes /\ [][NextGlue]_vars

\* The objects of a type the call made, the releases of one of them, and the
\* library calls by name.
Made(type) == {trace[i].r : i \in {j \in Events("new") : trace[j].f = type}} \ {0}

Deleted(type, p) == {i \in Events("delete") : trace[i].f = type /\ trace[i].a = p}

Lib(f) == {i \in Events("lib") : trace[i].f = f}

Succeeded(f) == \E i \in Lib(f) : trace[i].r = 1

\* C27: a glue digest procedure returns 1 exactly when the context was made
\* and DigestInit, DigestUpdate and DigestFinal all returned 1, and 0
\* otherwise; no step runs after one that failed; a context that was made
\* is freed exactly once before the procedure returns.
C27_DigestGlue ==
    (pc = "done" /\ outcome.op \in DigestProcedures) =>
        /\ outcome.value.v[1] \in {0, 1}
        /\ outcome.value.v[1] = 1 <=>
               /\ Made("EVP_MD_CTX") # {}
               /\ Succeeded("EVP_DigestInit_ex")
               /\ Succeeded("EVP_DigestUpdate")
               /\ Succeeded("EVP_DigestFinal_ex")
        /\ Lib("EVP_DigestInit_ex") # {} => Made("EVP_MD_CTX") # {}
        /\ Lib("EVP_DigestUpdate") # {} => Succeeded("EVP_DigestInit_ex")
        /\ Lib("EVP_DigestFinal_ex") # {} => Succeeded("EVP_DigestUpdate")
        /\ \A f \in {"EVP_DigestInit_ex", "EVP_DigestUpdate", "EVP_DigestFinal_ex"} :
               Cardinality(Lib(f)) <= 1
        /\ \A p \in Made("EVP_MD_CTX") :
               /\ Cardinality(Deleted("EVP_MD_CTX", p)) = 1
               /\ \A i \in Deleted("EVP_MD_CTX", p) : \A j \in Events("lib") : j < i
               /\ p \notin heap

\* DigestUpdate failed in sha256_digest: DigestFinal was not run, the
\* context was freed, 0 was returned.
C27_Witness ==
    /\ pc = "done"
    /\ outcome.op = "sha256_digest"
    /\ outcome.value.v[1] = 0
    /\ \E i \in Lib("EVP_DigestUpdate") : trace[i].r = 0
    /\ Lib("EVP_DigestFinal_ex") = {}
    /\ \E p \in Made("EVP_MD_CTX") : Cardinality(Deleted("EVP_MD_CTX", p)) = 1

\* C29: rsa_generate_key frees its exponent exactly once on every path on
\* which it was made, frees the RSA object exactly once if key generation
\* failed and not at all otherwise, and returns a key only when BN_set_word,
\* RSA_new and RSA_generate_key_ex all succeeded.
C29_RsaGenerateKey ==
    (pc = "done" /\ outcome.op = "rsa_generate_key") =>
        /\ \A bn \in Made("BIGNUM") :
               Cardinality(Deleted("BIGNUM", bn)) = 1 /\ bn \notin heap
        /\ \A rsa \in Made("RSA") :
               /\ Cardinality(Deleted("RSA", rsa)) =
                      IF \E i \in Lib("RSA_generate_key_ex") : trace[i].r = 0
                      THEN 1 ELSE 0
               /\ Deleted("RSA", rsa) = {} <=> rsa \in heap
        /\ outcome.value.v[1] # 0 =>
               /\ Succeeded("BN_set_word")
               /\ outcome.value.v[1] \in Made("RSA")
               /\ Succeeded("RSA_generate_key_ex")
               /\ outcome.value.v[1] \in heap
        /\ (Succeeded("BN_set_word") /\ Made("RSA") # {}
                /\ Succeeded("RSA_generate_key_ex")) => outcome.value.v[1] # 0

\* Key generation failed: the RSA object and the exponent were each freed
\* once and NULL was returned.
C29_Witness ==
    /\ pc = "done"
    /\ outcome.op = "rsa_generate_key"
    /\ outcome.value.v[1] = 0
    /\ \E i \in Lib("RSA_generate_key_ex") : trace[i].r = 0
    /\ \E rsa \in Made("RSA") : Cardinality(Deleted("RSA", rsa)) = 1
    /\ \E bn \in Made("BIGNUM") : Cardinality(Deleted("BIGNUM", bn)) = 1

====
